---- MODULE Spec2Model ----
(***************************************************************************)
(* WalkMate: the activity store (User, Walk), the streak computation and   *)
(* the weekly report of src/server/services/dbService.ts, with the date    *)
(* helpers of src/server/utils/dateUtils.ts and the JavaScript Date        *)
(* operations they call; the Express handlers of the user and walk routes  *)
(* with their validation middleware, and the Next.js handlers of           *)
(* /api/users and /api/walks that write the same tables.                   *)
(*                                                                         *)
(* Time.  An instant is an integer number of ticks since the epoch (UTC);  *)
(* a tick is the smallest unit of time ("one millisecond" of the source),  *)
(* and a day has TicksPerDay of them.  Day 0 is 1970-01-01, a Thursday.    *)
(* A calendar date string "YYYY-MM-DD" is modelled by its day number:      *)
(* the strings sort (Array.prototype.sort, by code unit) in the order of   *)
(* the day numbers.                                                        *)
(*                                                                         *)
(* Numbers.  steps, distance, duration and goalValue are integers          *)
(* (distance, a Float in the schema, in whole units).                      *)
(***************************************************************************)
EXTENDS Integers, Sequences, FiniteSets

\* ------------------------------------------------------------------ bounds

\* ticks in a day (the resolution of time)
TicksPerDay == 4

\* server time-zone offsets range over -MaxOffset..MaxOffset ticks
MaxOffset == 1

\* at most this many Walk rows are created in a behaviour
MaxWalks == 2

\* days in a week: getDay() is 0..6, and the report has 7 buckets
DaysPerWeek == 7

VARIABLES
    tz,      \* the server's time zone: [base, shift, at]
    now,     \* the instant `new Date()` returns
    users,   \* table User: set of rows
    walks,   \* table Walk: set of rows
    resp,    \* the response of the last request handled
    pending, \* the requests in flight between two of their database calls
    client   \* the browser: the WalkProvider's state and its localStorage

vars == <<tz, now, users, walks, resp, pending, client>>

\* ------------------------------------------------- JavaScript Date, local time

\* The zone's UTC offset (ticks) in force at instant t: tz.base before the
\* daylight-saving transition at tz.at, tz.base + tz.shift from it on.
Offset(t) ==
    IF tz.shift # 0 /\ t >= tz.at THEN tz.base + tz.shift ELSE tz.base

\* Local wall-clock time of instant t, and its fields.
LocalTime(t) == t + Offset(t)

\* getFullYear/getMonth/getDate: the local calendar day of t
LocalDay(t) == LocalTime(t) \div TicksPerDay

\* getHours..getMilliseconds: the local time of day of t
LocalTick(t) == LocalTime(t) % TicksPerDay

\* The instant of local wall-clock time L (ECMAScript UTC(t)): a local time
\* that a transition skips or repeats is read with the offset before it.
ToUTC(L) ==
    LET before == L - tz.base
        after  == L - (tz.base + tz.shift)
    IN  IF tz.shift = 0 THEN before
        ELSE IF before < tz.at THEN before
        ELSE IF after >= tz.at THEN after
        ELSE before

\* date.setHours(h, m, s, ms): the same local day, local time of day `tick`
SetHours(t, tick) == ToUTC(LocalDay(t) * TicksPerDay + tick)

\* date.setDate(date.getDate() + n): n local days on, same local time of day
AddDays(t, n) == ToUTC(LocalTime(t) + n * TicksPerDay)

\* date.getDay(): 0 = Sunday; day 0 of the epoch is a Thursday
GetDay(t) == (LocalDay(t) + 4) % DaysPerWeek

\* date.toISOString().split('T')[0]: the UTC calendar date of t
ToISODate(t) == t \div TicksPerDay

\* new Date("YYYY-MM-DD"): a date-only string is UTC midnight of that date
NewDate(key) == key * TicksPerDay

\* the time value of an Invalid Date: what new Date(s) holds for a string s
\* that does not parse (every instant of the model is 0 or more)
NaN == 0 - 1

\* isNaN(date.getTime())
isNaN(t) == t = NaN

\* ------------------------------------------------------------ dateUtils.ts

startOfDay(date) == SetHours(date, 0)

endOfDay(date) == SetHours(date, TicksPerDay - 1)

\* startOfWeek going back to Monday instead of Sunday
startOfWeekMonday(date) ==
    startOfDay(AddDays(date, 0 - ((GetDay(date) + DaysPerWeek - 1) % DaysPerWeek)))

startOfWeek(date) == startOfDay(AddDays(date, 0 - GetDay(date)))

endOfWeek(date) == endOfDay(AddDays(date, (DaysPerWeek - 1) - GetDay(date)))

formatDateToYYYYMMDD(date) == ToISODate(date)

\* ------------------------------------------------------------- the tables

\* ids a request can name; a created row takes the smallest unused one
UserIds == 1..2

WalkIds == 1..MaxWalks

\* A request field: the set holding its value, empty when it is not supplied
Absent == {}

Some(v) == {v}

ValueOf(field) == CHOOSE v \in field : TRUE

FreshUserId == CHOOSE i \in UserIds :
    /\ \A u \in users : u.id # i
    /\ \A j \in UserIds : (\A u \in users : u.id # j) => i <= j

FreshWalkId == CHOOSE i \in WalkIds :
    /\ \A w \in walks : w.id # i
    /\ \A j \in WalkIds : (\A w \in walks : w.id # j) => i <= j

\* prisma.user.findUnique({ where: { id } }): the set holding the row, or {}
findUnique(id) == {u \in users : u.id = id}

\* the sequences that list the rows of `rows` once each
Listings(rows) ==
    {s \in [1..Cardinality(rows) -> rows] :
        \A i, j \in 1..Cardinality(rows) : i # j => s[i] # s[j]}

\* findMany without orderBy: the rows in any order
findManyUnordered(rows) == Listings(rows)

\* prisma.walk.findMany({ where, orderBy: { date: 'desc' } }): every order
\* the database may return; rows of equal date come in any order
findManyDesc(rows) ==
    {s \in Listings(rows) : \A i, j \in DOMAIN s : i < j => s[i].date >= s[j].date}

\* prisma.walk.findMany({ where, orderBy: { date: 'asc' } })
findManyAsc(rows) ==
    {s \in Listings(rows) : \A i, j \in DOMAIN s : i < j => s[i].date <= s[j].date}

\* ------------------------------------------------ dbService.getUserStreak

Max(S) == CHOOSE m \in S : \A x \in S : x <= m

\* walkDates: the Set of the date strings of the walks
walkDatesOf(ws) == {formatDateToYYYYMMDD(ws[i].date) : i \in DOMAIN ws}

\* Array.from(walkDates).sort().reverse()
RECURSIVE sortReverse(_)
sortReverse(S) ==
    IF S = {} THEN <<>> ELSE <<Max(S)>> \o sortReverse(S \ {Max(S)})

\* the loop of lines 222-236, from index i (1-based here) on
RECURSIVE countConsecutive(_, _, _, _)
countConsecutive(sortedDates, i, currentDate, streak) ==
    IF i > Len(sortedDates) THEN streak
    ELSE LET prevDate == SetHours(NewDate(sortedDates[i]), 0)
             expectedPrevDate == AddDays(currentDate, -1)
         IN  IF prevDate = expectedPrevDate
             THEN countConsecutive(sortedDates, i + 1, prevDate, streak + 1)
             ELSE streak

\* lines 193-238: the streak of a non-empty list of walks
streakOfWalks(ws, t) ==
         LET sortedDates == sortReverse(walkDatesOf(ws))
             today == SetHours(t, 0)
             mostRecentWalkDate == SetHours(NewDate(sortedDates[1]), 0)
             yesterday == AddDays(today, -1)
         IN  IF mostRecentWalkDate < yesterday THEN 0
             ELSE countConsecutive(sortedDates, 2, mostRecentWalkDate, 1)

\* getUserStreak without the test of lines 189-191: sortedDates[0] is
\* undefined, the Invalid Date compares false and the initial streak 1 returns
getUserStreakNoEmptyTest(ws, t) ==
    IF Len(ws) = 0 THEN 1 ELSE streakOfWalks(ws, t)

\* getUserStreak on the rows `ws` the query returned, at instant `t`
getUserStreak(ws, t) ==
    IF Len(ws) = 0 THEN 0 ELSE streakOfWalks(ws, t)

\* ------------------------------------------ dbService.getUserWeeklyReport

\* the position of the bucket of dateKey in dailyData, as a set (empty: none)
bucketOf(dailyData, dateKey) ==
    {j \in DOMAIN dailyData : dailyData[j].date = dateKey}

\* dailyData[dateKey] = { date: dateKey, steps: 0, ... }: a new key is added
\* after the keys there are, a key that is there keeps its place
setBucket(dailyData, dateKey) ==
    LET empty == [date |-> dateKey, steps |-> 0, distance |-> 0, duration |-> 0,
                  goalMet |-> FALSE]
    IN  IF bucketOf(dailyData, dateKey) = {}
        THEN Append(dailyData, empty)
        ELSE [dailyData EXCEPT ![ValueOf(bucketOf(dailyData, dateKey))] = empty]

\* the loop of lines 346-358, from day i on
RECURSIVE initDailyData(_, _, _)
initDailyData(startDate, i, dailyData) ==
    IF i >= DaysPerWeek THEN dailyData
    ELSE LET currentDate == AddDays(startDate, i)
             dateKey == formatDateToYYYYMMDD(currentDate)
         IN  initDailyData(startDate, i + 1, setBucket(dailyData, dateKey))

\* the body of walks.forEach, lines 371-384
addWalk(dailyData, walk, user) ==
    LET dateKey == formatDateToYYYYMMDD(walk.date)
    IN  IF bucketOf(dailyData, dateKey) = {} THEN dailyData
        ELSE LET j == ValueOf(bucketOf(dailyData, dateKey))
                 day == dailyData[j]
                 steps == day.steps + walk.steps
                 distance == day.distance + walk.distance
                 duration == day.duration + walk.duration
                 goalMet ==
                     IF user.goalType = "steps" /\ steps >= user.goalValue THEN TRUE
                     ELSE IF user.goalType = "distance" /\ distance >= user.goalValue
                     THEN TRUE
                     ELSE day.goalMet
             IN  [dailyData EXCEPT ![j] =
                     [date |-> day.date, steps |-> steps, distance |-> distance,
                      duration |-> duration, goalMet |-> goalMet]]

\* walks.forEach(...), lines 370-385, from walk i on
RECURSIVE processWalks(_, _, _, _)
processWalks(ws, i, dailyData, user) ==
    IF i > Len(ws) THEN dailyData
    ELSE processWalks(ws, i + 1, addWalk(dailyData, ws[i], user), user)

\* sumDays counting a day as active only when it has steps
RECURSIVE sumDaysStepsOnly(_, _, _)
sumDaysStepsOnly(dailyData, i, weeklyTotals) ==
    IF i > Len(dailyData) THEN weeklyTotals
    ELSE LET day == dailyData[i]
         IN  sumDaysStepsOnly(dailyData, i + 1,
                 [totalSteps |-> weeklyTotals.totalSteps + day.steps,
                  totalDistance |-> weeklyTotals.totalDistance + day.distance,
                  totalDuration |-> weeklyTotals.totalDuration + day.duration,
                  daysActive |-> weeklyTotals.daysActive +
                      (IF day.steps > 0 THEN 1 ELSE 0),
                  daysGoalMet |-> weeklyTotals.daysGoalMet +
                      (IF day.goalMet THEN 1 ELSE 0)])

\* Object.values(dailyData).forEach(...), lines 396-408, from bucket i on
RECURSIVE sumDays(_, _, _)
sumDays(dailyData, i, weeklyTotals) ==
    IF i > Len(dailyData) THEN weeklyTotals
    ELSE LET day == dailyData[i]
         IN  sumDays(dailyData, i + 1,
                 [totalSteps |-> weeklyTotals.totalSteps + day.steps,
                  totalDistance |-> weeklyTotals.totalDistance + day.distance,
                  totalDuration |-> weeklyTotals.totalDuration + day.duration,
                  daysActive |-> weeklyTotals.daysActive +
                      (IF day.steps > 0 \/ day.distance > 0 \/ day.duration > 0
                       THEN 1 ELSE 0),
                  daysGoalMet |-> weeklyTotals.daysGoalMet +
                      (IF day.goalMet THEN 1 ELSE 0)])

\* the where clause of the report's query: userId, date gte startDate, lte endDate
inWeek(userId, startDate, endDate) ==
    {w \in walks : w.userId = userId /\ w.date >= startDate /\ w.date <= endDate}

\* the report of lines 334-415 from the rows `ws` and the row `user` read
weeklyReport(ws, user, startDate, endDate) ==
    LET dailyData == processWalks(ws, 1, initDailyData(startDate, 0, <<>>), user)
        weeklyTotals == sumDays(dailyData, 1,
            [totalSteps |-> 0, totalDistance |-> 0, totalDuration |-> 0,
             daysActive |-> 0, daysGoalMet |-> 0])
    IN  [startDate |-> formatDateToYYYYMMDD(startDate),
         endDate |-> formatDateToYYYYMMDD(endDate),
         dailyData |-> dailyData,
         weeklyTotals |-> weeklyTotals]

\* ----------------------------------- dbService: the calls and their results

\* a promise that resolved with value v, or was rejected with new Error(e)
Resolved(v) == [settled |-> "resolved", value |-> v]

Rejected(e) == [settled |-> "rejected", error |-> e]

\* dbService.getUserStreak(userId) at instant `now`: the results it may
\* settle with (one for each order the query may return the rows in)
getUserStreakOf(userId) ==
    {Resolved(getUserStreak(ws, now)) :
        ws \in findManyDesc({w \in walks : w.userId = userId})}

\* dbService.getUserStreakWithTransaction(userId): the user is looked up
\* first (lines 247-253), then the lines of getUserStreak follow
getUserStreakWithTransaction(userId) ==
    IF {u \in users : u.id = userId} = {} THEN {Rejected("User not found")}
    ELSE {Resolved(getUserStreak(ws, now)) :
             ws \in findManyDesc({w \in walks : w.userId = userId})}

\* dbService.getUserWeeklyReport(userId, weekStartDate): the walks of the
\* week are read, then the user (lines 361-367); weekStartDate is a set,
\* empty when the argument is undefined
getUserWeeklyReport(userId, weekStartDate) ==
    LET startDate == IF weekStartDate # {} THEN startOfWeek(CHOOSE d \in weekStartDate : TRUE)
                     ELSE startOfWeek(now)
        endDate == endOfWeek(startDate)
        user == {u \in users : u.id = userId}
    IN  IF user = {} THEN {Rejected("User not found")}
        ELSE {Resolved(weeklyReport(ws, CHOOSE u \in user : TRUE, startDate, endDate)) :
                 ws \in findManyAsc(inWeek(userId, startDate, endDate))}

\* dbService.getUserWeeklyReportWithTransaction(userId, weekStartDate): the
\* user is read first (lines 425-431), then the walks of the week
getUserWeeklyReportWithTransaction(userId, weekStartDate) ==
    LET user == {u \in users : u.id = userId}
        startDate == IF weekStartDate # {} THEN startOfWeek(CHOOSE d \in weekStartDate : TRUE)
                     ELSE startOfWeek(now)
        endDate == endOfWeek(startDate)
    IN  IF user = {} THEN {Rejected("User not found")}
        ELSE {Resolved(weeklyReport(ws, CHOOSE u \in user : TRUE, startDate, endDate)) :
                 ws \in findManyAsc(inWeek(userId, startDate, endDate))}

\* the four functions are called on the same arguments in the same state of
\* the store, and each settles
ServiceCalls(userId, weekStartDate) ==
    /\ \E streak \in getUserStreakOf(userId),
          streakTx \in getUserStreakWithTransaction(userId),
          report \in getUserWeeklyReport(userId, weekStartDate),
          reportTx \in getUserWeeklyReportWithTransaction(userId, weekStartDate) :
            resp' = [op |-> "dbService", userId |-> userId,
                     streak |-> streak, streakTx |-> streakTx,
                     report |-> report, reportTx |-> reportTx]
    /\ UNCHANGED <<client, tz, now, users, walks>>

\* ------------------------------------------------------------- the handlers

\* a handler that awaits a second database call is in flight in a slot
\* between the two calls
Slots == 1..2

Idle == [op |-> "idle"]

NoRequests == [s \in Slots |-> Idle]

\* goalValue of a user created without one (data.goalValue || 10000)
DefaultGoalValue == 10000

UserWalks(userId) == {w \in walks : w.userId = userId}

\* validateRequest: a supplied number below the rule's min is an error
BelowMin(field, min) == \E v \in field : v < min

\* ------------------------------------------------ middleware/validation.ts

\* The values of a request body's field: a JSON number, a JSON string, null,
\* or undefined when the body has no such field.
Undefined == [t |-> "undefined"]

Null == [t |-> "null"]

Num(n) == [t |-> "number", n |-> n]

Str(s) == [t |-> "string", s |-> s]

\* Number(value), as the set holding the number; empty when it is NaN.
\* Of the strings of the model only "" is numeric (Number("") is 0).
ToNumber(value) ==
    IF value.t = "number" THEN {value.n}
    ELSE IF value = Str("") THEN {0}
    ELSE {}

\* !isNaN(new Date(value).getTime()): a number is a time value; of the
\* strings of the model only the ISO date parses
IsValidDate(value) == value.t = "number" \/ value = Str("2025-03-10")

\* the messages validateRequest pushes for one field (the body of the
\* forEach, lines 223-261)
fieldErrors(field, rule, value) ==
    IF rule.required /\ value \in {Undefined, Null, Str("")}
    THEN <<[field |-> field, error |-> "is required"]>>
    ELSE IF value \in {Undefined, Null} THEN <<>>
    ELSE IF rule.type = "number"
    THEN IF ToNumber(value) = {}
         THEN <<[field |-> field, error |-> "must be a number"]>>
         ELSE (IF \E m \in rule.min : ValueOf(ToNumber(value)) < m
               THEN <<[field |-> field, error |-> "must be at least"]>> ELSE <<>>)
              \o (IF \E m \in rule.max : ValueOf(ToNumber(value)) > m
                  THEN <<[field |-> field, error |-> "must be at most"]>> ELSE <<>>)
    ELSE IF rule.type = "date"
    THEN IF ~IsValidDate(value)
         THEN <<[field |-> field, error |-> "must be a valid date"]>> ELSE <<>>
    ELSE <<>>

\* Object.entries(rules).forEach(...), from rule i on: the errors collected
RECURSIVE collectErrors(_, _, _)
collectErrors(rules, data, i) ==
    IF i > Len(rules) THEN <<>>
    ELSE fieldErrors(rules[i].field, rules[i], data[rules[i].field])
         \o collectErrors(rules, data, i + 1)

\* validateRequest(rules)(req, res, next): 400 with the errors, or next()
\* (status 0: the middleware sent no response)
validateRequest(rules, data) ==
    LET errors == collectErrors(rules, data, 1)
    IN  IF Len(errors) > 0
        THEN [status |-> 400, errors |-> errors, next |-> 0]
        ELSE [status |-> 0, errors |-> <<>>, next |-> 1]

\* a rule of a route: field, required, type, min and max (sets, empty: none)
Rule(field, required, type, min) ==
    [field |-> field, required |-> required, type |-> type, min |-> min,
     max |-> Absent]

\* the rules of POST /walks and PUT /walks/:id (walkRoutes.ts)
CreateWalkRules ==
    <<Rule("userId", TRUE, "string", Absent), Rule("steps", TRUE, "number", Some(0)),
      Rule("distance", TRUE, "number", Some(0)),
      Rule("duration", TRUE, "number", Some(0)), Rule("date", TRUE, "date", Absent)>>

UpdateWalkRules ==
    <<Rule("steps", FALSE, "number", Some(0)), Rule("distance", FALSE, "number", Some(0)),
      Rule("duration", FALSE, "number", Some(0)), Rule("date", FALSE, "date", Absent)>>

\* the rules of POST /users and PUT /users/:id (userRoutes.ts)
CreateUserRules ==
    <<Rule("name", TRUE, "string", Absent), Rule("goalType", FALSE, "string", Absent),
      Rule("goalValue", FALSE, "number", Some(1))>>

UpdateUserRules ==
    <<Rule("name", FALSE, "string", Absent), Rule("goalType", FALSE, "string", Absent),
      Rule("goalValue", FALSE, "number", Some(1))>>

\* the middleware of a route handles the request that arrived in slot s
Validate(s) ==
    /\ pending[s].op = "request"
    /\ resp' = [op |-> "validateRequest", rules |-> pending[s].rules,
                data |-> pending[s].data,
                result |-> validateRequest(pending[s].rules, pending[s].data)]
    /\ pending' = [pending EXCEPT ![s] = Idle]
    /\ UNCHANGED <<client, tz, now, users, walks>>

\* POST /users: validateRequest (goalValue min 1), userController.createUser,
\* dbService.createUser
ExpressCreateUser(goalType, goalValue) ==
    /\ Cardinality(users) < Cardinality(UserIds)
    /\ IF BelowMin(goalValue, 1)
       THEN /\ resp' = [op |-> "createUser", status |-> 400]
            /\ UNCHANGED users
       ELSE LET user == [id |-> FreshUserId,
                         goalType |-> IF goalType = Absent THEN "steps"
                                      ELSE ValueOf(goalType),
                         goalValue |-> IF goalValue = Absent \/ goalValue = Some(0)
                                       THEN DefaultGoalValue ELSE ValueOf(goalValue)]
            IN  /\ users' = users \cup {user}
                /\ resp' = [op |-> "createUser", status |-> 201, data |-> user]
    /\ UNCHANGED <<client, tz, now, walks>>

\* POST /walks: validateRequest (steps, distance, duration min 0; every field
\* required), walkController.createWalk, dbService.createWalk
ExpressCreateWalk(userId, steps, distance, duration, date) ==
    /\ Cardinality(walks) < MaxWalks
    /\ IF \/ Absent \in {steps, distance, duration}
          \/ BelowMin(steps, 0) \/ BelowMin(distance, 0) \/ BelowMin(duration, 0)
       THEN /\ resp' = [op |-> "createWalk", status |-> 400]
            /\ UNCHANGED walks
       ELSE IF findUnique(userId) = {}
       THEN /\ resp' = [op |-> "createWalk", status |-> 404]
            /\ UNCHANGED walks
       ELSE LET walk == [id |-> FreshWalkId, userId |-> userId,
                         steps |-> ValueOf(steps), distance |-> ValueOf(distance),
                         duration |-> ValueOf(duration), date |-> date]
            IN  /\ walks' = walks \cup {walk}
                /\ resp' = [op |-> "createWalk", status |-> 201, data |-> walk]
    /\ UNCHANGED <<client, tz, now, users>>

\* GET /users/:id/streak: userController.getUserStreak, dbService.getUserStreak
GetUserStreak(id) ==
    /\ IF findUnique(id) = {}
       THEN resp' = [op |-> "getUserStreak", status |-> 404]
       ELSE \E ws \in findManyDesc(UserWalks(id)) :
                resp' = [op |-> "getUserStreak", status |-> 200, userId |-> id,
                         streak |-> getUserStreak(ws, now)]
    /\ UNCHANGED <<client, tz, now, users, walks>>

\* userController.getWeeklyReport, lines 185-201: weekStartDate is the parsed
\* ?date= when there is one and it is a valid date, undefined otherwise
weekStartDateOf(date) ==
    IF date # Absent /\ ~isNaN(ValueOf(date)) THEN date ELSE Absent

\* GET /users/:id/weekly-report?date=: userController.getWeeklyReport,
\* dbService.getUserWeeklyReport.  `date` is the time value the query string
\* parses to (NaN when it does not parse), or Absent.  The response is
\* recorded with the bounds of the query the handler issued.
GetWeeklyReport(id, date) ==
    /\ IF findUnique(id) = {}
       THEN resp' = [op |-> "getWeeklyReport", status |-> 404]
       ELSE LET weekStartDate == weekStartDateOf(date)
                startDate == IF weekStartDate # Absent
                             THEN startOfWeek(ValueOf(weekStartDate))
                             ELSE startOfWeek(now)
                endDate == endOfWeek(startDate)
                user == ValueOf(findUnique(id))
            IN  \E ws \in findManyAsc(inWeek(id, startDate, endDate)) :
                    resp' = [op |-> "getWeeklyReport", status |-> 200,
                             userId |-> id, date |-> date,
                             query |-> [gte |-> startDate, lte |-> endDate],
                             data |-> weeklyReport(ws, user, startDate, endDate)]
    /\ UNCHANGED <<client, tz, now, users, walks>>

\* the user id the Next.js handler falls back to (route.js line 58); here the
\* id of the first user created
ValidUserId == 1

\* POST /api/walks (Next.js route): no validation of the values; an unknown
\* userId is replaced by ValidUserId when that user exists; a missing date
\* is `now`
NextCreateWalk(userId, steps, distance, duration, date) ==
    /\ Cardinality(walks) < MaxWalks
    /\ IF findUnique(userId) = {} /\ findUnique(ValidUserId) = {}
       THEN /\ resp' = [op |-> "nextCreateWalk", status |-> 404]
            /\ UNCHANGED walks
       ELSE IF Absent \in {steps, distance, duration}
       THEN /\ resp' = [op |-> "nextCreateWalk", status |-> 500]
            /\ UNCHANGED walks
       ELSE LET walk == [id |-> FreshWalkId,
                         userId |-> IF findUnique(userId) = {} THEN ValidUserId
                                    ELSE userId,
                         steps |-> ValueOf(steps), distance |-> ValueOf(distance),
                         duration |-> ValueOf(duration),
                         date |-> IF date = Absent THEN now ELSE ValueOf(date)]
            IN  /\ walks' = walks \cup {walk}
                /\ resp' = [op |-> "nextCreateWalk", status |-> 201, data |-> walk]
    /\ UNCHANGED <<client, tz, now, users>>

\* prisma.user.update({ where: { id }, data }): a field of `data` that is
\* undefined keeps the row's value
userUpdate(user, goalType, goalValue) ==
    [id |-> user.id,
     goalType |-> IF goalType = Absent THEN user.goalType ELSE ValueOf(goalType),
     goalValue |-> IF goalValue = Absent THEN user.goalValue ELSE ValueOf(goalValue)]

\* an update that writes every column: a field not supplied becomes 0
walkUpdateEveryField(walk, steps, distance, duration, date) ==
    [id |-> walk.id, userId |-> walk.userId,
     steps |-> IF steps = Absent THEN 0 ELSE ValueOf(steps),
     distance |-> IF distance = Absent THEN 0 ELSE ValueOf(distance),
     duration |-> IF duration = Absent THEN 0 ELSE ValueOf(duration),
     date |-> IF date = Absent THEN walk.date ELSE ValueOf(date)]

\* prisma.walk.update({ where: { id }, data: updateData })
walkUpdate(walk, steps, distance, duration, date) ==
    [id |-> walk.id, userId |-> walk.userId,
     steps |-> IF steps = Absent THEN walk.steps ELSE ValueOf(steps),
     distance |-> IF distance = Absent THEN walk.distance ELSE ValueOf(distance),
     duration |-> IF duration = Absent THEN walk.duration ELSE ValueOf(duration),
     date |-> IF date = Absent THEN walk.date ELSE ValueOf(date)]

\* prisma.walk.findUnique({ where: { id } })
findUniqueWalk(id) == {w \in walks : w.id = id}

\* PUT /users/:id: validateRequest (goalValue min 1), userController.updateUser,
\* dbService.updateUser
ExpressUpdateUser(id, goalType, goalValue) ==
    /\ IF BelowMin(goalValue, 1)
       THEN /\ resp' = [op |-> "updateUser", status |-> 400]
            /\ UNCHANGED users
       ELSE IF findUnique(id) = {}
       THEN /\ resp' = [op |-> "updateUser", status |-> 404]
            /\ UNCHANGED users
       ELSE LET existingUser == ValueOf(findUnique(id))
                updatedUser == userUpdate(existingUser, goalType, goalValue)
            IN  /\ users' = (users \ {existingUser}) \cup {updatedUser}
                /\ resp' = [op |-> "updateUser", status |-> 200, data |-> updatedUser]
    /\ UNCHANGED <<client, tz, now, walks>>

\* PUT /walks/:id: validateRequest (steps, distance, duration min 0),
\* walkController.updateWalk
ExpressUpdateWalk(id, steps, distance, duration, date) ==
    /\ IF BelowMin(steps, 0) \/ BelowMin(distance, 0) \/ BelowMin(duration, 0)
       THEN /\ resp' = [op |-> "updateWalk", status |-> 400]
            /\ UNCHANGED walks
       ELSE IF findUniqueWalk(id) = {}
       THEN /\ resp' = [op |-> "updateWalk", status |-> 404]
            /\ UNCHANGED walks
       ELSE LET walk == ValueOf(findUniqueWalk(id))
                updatedWalk == walkUpdate(walk, steps, distance, duration, date)
            IN  /\ walks' = (walks \ {walk}) \cup {updatedWalk}
                /\ resp' = [op |-> "updateWalk", status |-> 200, data |-> updatedWalk]
    /\ UNCHANGED <<client, tz, now, users>>

\* Walk_userId_fkey, on insert: the row's userId must be the id of a User
foreignKeyHolds(userId) == findUnique(userId) # {}

\* Walk_userId_fkey without ON DELETE RESTRICT: no walk keeps a user
onDeleteNoAction(userId) == FALSE

\* Walk_userId_fkey ... ON DELETE RESTRICT: a User that Walk rows refer to
\* cannot be deleted
onDeleteRestrict(userId) == UserWalks(userId) # {}

\* POST /api/users (Next.js route): no validation of the goal; `||` replaces
\* a missing or 0 goalValue by the default
NextCreateUser(goalType, goalValue) ==
    /\ Cardinality(users) < Cardinality(UserIds)
    /\ LET user == [id |-> FreshUserId,
                    goalType |-> IF goalType = Absent THEN "steps"
                                 ELSE ValueOf(goalType),
                    goalValue |-> IF goalValue = Absent \/ goalValue = Some(0)
                                  THEN DefaultGoalValue ELSE ValueOf(goalValue)]
       IN  /\ users' = users \cup {user}
           /\ resp' = [op |-> "nextCreateUser", status |-> 201, data |-> user]
    /\ UNCHANGED <<client, tz, now, walks>>

\* PUT /api/users?id= (Next.js route): no validation; prisma.user.update
\* throws when there is no such row
NextUpdateUser(id, goalType, goalValue) ==
    /\ IF findUnique(id) = {}
       THEN /\ resp' = [op |-> "nextUpdateUser", status |-> 500]
            /\ UNCHANGED users
       ELSE LET user == userUpdate(ValueOf(findUnique(id)), goalType, goalValue)
            IN  /\ users' = (users \ findUnique(id)) \cup {user}
                /\ resp' = [op |-> "nextUpdateUser", status |-> 200, data |-> user]
    /\ UNCHANGED <<client, tz, now, walks>>

\* a DELETE /api/users that removes the user's walks before the user
NextDeleteUserCascade(id) ==
    /\ IF findUnique(id) = {}
       THEN /\ resp' = [op |-> "nextDeleteUser", status |-> 500, id |-> id]
            /\ UNCHANGED <<users, walks>>
       ELSE /\ users' = users \ findUnique(id)
            /\ walks' = walks \ UserWalks(id)
            /\ resp' = [op |-> "nextDeleteUser", status |-> 200, id |-> id]
    /\ UNCHANGED <<client, tz, now>>

\* DELETE /api/users?id= (Next.js route): prisma.user.delete throws when there
\* is no such row and when the foreign key of Walk restricts the delete
NextDeleteUser(id) ==
    /\ IF findUnique(id) = {} \/ onDeleteRestrict(id)
       THEN /\ resp' = [op |-> "nextDeleteUser", status |-> 500, id |-> id]
            /\ UNCHANGED users
       ELSE /\ users' = users \ findUnique(id)
            /\ resp' = [op |-> "nextDeleteUser", status |-> 200, id |-> id]
    /\ UNCHANGED <<client, tz, now, walks>>

\* DELETE /api/users with or without ?id= (route.js lines 118-126): `id` is
\* the set holding the parameter, empty when the request has none
NextDeleteUserRequest(id) ==
    IF id = Absent
    THEN /\ resp' = [op |-> "nextDeleteUser", status |-> 400]
         /\ UNCHANGED <<client, tz, now, users, walks>>
    ELSE NextDeleteUser(ValueOf(id))

\* POST /walks, call by call.  validateRequest, then the first call
\* (walkController line 118): the user is looked up
CreateWalkFindUser(s, userId, steps, distance, duration, date) ==
    /\ pending[s] = Idle
    /\ Cardinality(walks) < MaxWalks
    /\ IF \/ Absent \in {steps, distance, duration}
          \/ BelowMin(steps, 0) \/ BelowMin(distance, 0) \/ BelowMin(duration, 0)
       THEN /\ resp' = [op |-> "createWalk", status |-> 400]
            /\ UNCHANGED pending
       ELSE IF findUnique(userId) = {}
       THEN /\ resp' = [op |-> "createWalk", status |-> 404]
            /\ UNCHANGED pending
       ELSE /\ pending' = [pending EXCEPT ![s] =
                   [op |-> "createWalk", userId |-> userId, steps |-> ValueOf(steps),
                    distance |-> ValueOf(distance), duration |-> ValueOf(duration),
                    date |-> date]]
            /\ UNCHANGED resp
    /\ UNCHANGED <<client, tz, now, users, walks>>

\* second call (walkController line 134, dbService.createWalk): the row is
\* inserted, unless the foreign key fails
CreateWalkCreate(s) ==
    /\ pending[s].op = "createWalk"
    /\ Cardinality(walks) < MaxWalks
    /\ LET r == pending[s]
           walk == [id |-> FreshWalkId, userId |-> r.userId, steps |-> r.steps,
                    distance |-> r.distance, duration |-> r.duration,
                    date |-> r.date]
       IN  IF foreignKeyHolds(r.userId)
           THEN /\ walks' = walks \cup {walk}
                /\ resp' = [op |-> "createWalk", status |-> 201, data |-> walk]
           ELSE /\ resp' = [op |-> "createWalk", status |-> 500]
                /\ UNCHANGED walks
    /\ pending' = [pending EXCEPT ![s] = Idle]
    /\ UNCHANGED <<client, tz, now, users>>

\* DELETE /walks/:id, call by call.  First call (walkController line 164):
\* the walk is looked up
DeleteWalkFind(s, id) ==
    /\ pending[s] = Idle
    /\ IF findUniqueWalk(id) = {}
       THEN /\ resp' = [op |-> "deleteWalk", status |-> 404, id |-> id]
            /\ UNCHANGED pending
       ELSE /\ pending' = [pending EXCEPT ![s] = [op |-> "deleteWalk", id |-> id]]
            /\ UNCHANGED resp
    /\ UNCHANGED <<client, tz, now, users, walks>>

\* second call (walkController line 179, dbService.deleteWalk):
\* prisma.walk.delete throws when the row is not there any more
DeleteWalkDelete(s) ==
    /\ pending[s].op = "deleteWalk"
    /\ IF findUniqueWalk(pending[s].id) = {}
       THEN /\ resp' = [op |-> "deleteWalk", status |-> 500, id |-> pending[s].id]
            /\ UNCHANGED walks
       ELSE /\ walks' = walks \ findUniqueWalk(pending[s].id)
            /\ resp' = [op |-> "deleteWalk", status |-> 200, id |-> pending[s].id]
    /\ pending' = [pending EXCEPT ![s] = Idle]
    /\ UNCHANGED <<client, tz, now, users>>

\* GET /users/:id/weekly-report, call by call.  First call (userController
\* line 174): the user is looked up; the request is then in flight in slot s,
\* with the states of the store from here on recorded in `stores`.
ReportCheckUser(s, id, date) ==
    /\ pending[s] = Idle
    /\ IF findUnique(id) = {}
       THEN /\ resp' = [op |-> "getWeeklyReport", status |-> 404]
            /\ UNCHANGED pending
       ELSE LET weekStartDate == weekStartDateOf(date)
                startDate == IF weekStartDate # Absent
                             THEN startOfWeek(ValueOf(weekStartDate))
                             ELSE startOfWeek(now)
            IN  /\ pending' = [pending EXCEPT ![s] =
                       [op |-> "getWeeklyReport", pc |-> "findMany", userId |-> id,
                        date |-> date, startDate |-> startDate,
                        endDate |-> endOfWeek(startDate), walks |-> <<>>,
                        stores |-> {<<users, walks>>}]]
                /\ UNCHANGED resp
    /\ UNCHANGED <<client, tz, now, users, walks>>

\* second call (dbService line 323): the walks of the week are read
ReportFindWalks(s) ==
    /\ pending[s].op = "getWeeklyReport" /\ pending[s].pc = "findMany"
    /\ \E ws \in findManyAsc(inWeek(pending[s].userId, pending[s].startDate,
                                     pending[s].endDate)) :
            pending' = [pending EXCEPT ![s].pc = "findUnique", ![s].walks = ws]
    /\ UNCHANGED <<client, tz, now, users, walks, resp>>

\* third call (dbService line 361): the user's goal is read and the report
\* is built from it and the walks read before
ReportFindUser(s) ==
    /\ pending[s].op = "getWeeklyReport" /\ pending[s].pc = "findUnique"
    /\ LET r == pending[s]
       IN  IF findUnique(r.userId) = {}
           THEN resp' = [op |-> "getWeeklyReport", status |-> 500]
           ELSE resp' = [op |-> "getWeeklyReport", status |-> 200,
                         userId |-> r.userId, date |-> r.date,
                         query |-> [gte |-> r.startDate, lte |-> r.endDate],
                         data |-> weeklyReport(r.walks, ValueOf(findUnique(r.userId)),
                                               r.startDate, r.endDate),
                         stores |-> r.stores]
    /\ pending' = [pending EXCEPT ![s] = Idle]
    /\ UNCHANGED <<client, tz, now, users, walks>>

\* dbService.batchCreateWalks, call by call inside prisma.$transaction: the
\* rows the transaction has written are in `created`, and reach table Walk
\* when the transaction commits.  First call (line 547): the user is looked
\* up; without one the function throws and the transaction is rolled back.
\* `input` is the list of walks; an element's steps is a set, empty when the
\* element has none.
BatchFindUser(s, userId, input) ==
    /\ pending[s] = Idle
    /\ IF findUnique(userId) = {}
       THEN /\ resp' = [op |-> "batchCreateWalks", settled |-> "rejected",
                        error |-> "User not found"]
            /\ UNCHANGED pending
       ELSE /\ pending' = [pending EXCEPT ![s] =
                   [op |-> "batchCreateWalks", userId |-> userId, input |-> input,
                    created |-> <<>>]]
            /\ UNCHANGED resp
    /\ UNCHANGED <<client, tz, now, users, walks>>

\* the rows written by the transactions in flight
Uncommitted ==
    UNION {{pending[s].created[i] : i \in DOMAIN pending[s].created} :
           s \in {t \in Slots : pending[t].op = "batchCreateWalks"}}

\* the id of a row created inside a transaction: unused by the rows stored
\* and by the rows written by the transactions in flight
freshWalkIdInTx == CHOOSE i \in WalkIds :
    /\ \A w \in walks \cup Uncommitted : w.id # i
    /\ \A j \in WalkIds : (\A w \in walks \cup Uncommitted : w.id # j) => i <= j

\* tx.walk.create throws: a required field is missing, or the foreign key
\* Walk_userId_fkey fails
createThrows(walkData, userId) ==
    walkData.steps = Absent \/ ~foreignKeyHolds(userId)

\* a batch that writes each row with the global client: the row is stored
\* at once, outside the transaction
BatchCreateDirect(s) ==
    /\ pending[s].op = "batchCreateWalks"
    /\ Len(pending[s].created) < Len(pending[s].input)
    /\ LET r == pending[s]
           walkData == r.input[Len(r.created) + 1]
           walk == [id |-> freshWalkIdInTx, userId |-> r.userId,
                    steps |-> ValueOf(walkData.steps), distance |-> walkData.distance,
                    duration |-> walkData.duration, date |-> walkData.date]
       IN  IF createThrows(walkData, r.userId)
           THEN /\ resp' = [op |-> "batchCreateWalks", settled |-> "rejected",
                            error |-> "create failed"]
                /\ pending' = [pending EXCEPT ![s] = Idle]
                /\ UNCHANGED walks
           ELSE /\ walks' = walks \cup {walk}
                /\ pending' = [pending EXCEPT ![s].input =
                       SubSeq(r.input, 1, Len(r.created)) \o
                       SubSeq(r.input, Len(r.created) + 2, Len(r.input))]
                /\ UNCHANGED resp
    /\ UNCHANGED <<client, tz, now, users>>

\* the body of the loop (lines 557-565): the next walk of the input is
\* created inside the transaction; when the create throws, the transaction is
\* rolled back and the rows it wrote are dropped
BatchCreate(s) ==
    /\ pending[s].op = "batchCreateWalks"
    /\ Len(pending[s].created) < Len(pending[s].input)
    /\ LET r == pending[s]
           walkData == r.input[Len(r.created) + 1]
           walk == [id |-> freshWalkIdInTx, userId |-> r.userId,
                    steps |-> ValueOf(walkData.steps), distance |-> walkData.distance,
                    duration |-> walkData.duration, date |-> walkData.date]
       IN  IF createThrows(walkData, r.userId)
           THEN /\ resp' = [op |-> "batchCreateWalks", settled |-> "rejected",
                            error |-> "create failed"]
                /\ pending' = [pending EXCEPT ![s] = Idle]
           ELSE /\ pending' = [pending EXCEPT ![s].created = Append(@, walk)]
                /\ UNCHANGED resp
    /\ UNCHANGED <<client, tz, now, users, walks>>

\* the loop is over (line 567): createdCount is returned and the transaction
\* commits the rows it wrote
BatchCommit(s) ==
    /\ pending[s].op = "batchCreateWalks"
    /\ Len(pending[s].created) = Len(pending[s].input)
    /\ walks' = walks \cup {pending[s].created[i] : i \in DOMAIN pending[s].created}
    /\ resp' = [op |-> "batchCreateWalks", settled |-> "resolved",
                count |-> Len(pending[s].created)]
    /\ pending' = [pending EXCEPT ![s] = Idle]
    /\ UNCHANGED <<client, tz, now, users>>

\* a request that changes the store while reports are in flight: each report
\* in flight records the new state of the store
Observed ==
    pending' = [s \in Slots |->
        IF pending[s].op = "getWeeklyReport"
        THEN [pending[s] EXCEPT !.stores = @ \cup {<<users', walks'>>}]
        ELSE pending[s]]

\* ------------------------------------------- walkController: the reads

\* dbService.getWalksByDateRange: the where clause userId, date gte
\* startDate, lt endDate
inRange(userId, startDate, endDate) ==
    {w \in walks : w.userId = userId /\ w.date >= startDate /\ w.date < endDate}

\* GET /walks/user/:userId: walkController.getUserWalks, dbService.getUserWalks
GetUserWalks(userId) ==
    /\ IF findUnique(userId) = {}
       THEN resp' = [op |-> "getUserWalks", status |-> 404]
       ELSE \E ws \in findManyDesc(UserWalks(userId)) :
                resp' = [op |-> "getUserWalks", status |-> 200, userId |-> userId,
                         data |-> ws]
    /\ UNCHANGED <<client, tz, now, users, walks>>

\* GET /walks/user/:userId/date/:date: walkController.getWalksByDate.  `date`
\* is the set holding the day number that the string names ("YYYY-MM-DD"),
\* empty when the string names no date: new Date(date) is then an Invalid
\* Date.  The response is recorded with the bounds of the query issued.
GetWalksByDate(userId, date) ==
    /\ IF findUnique(userId) = {}
       THEN resp' = [op |-> "getWalksByDate", status |-> 404]
       ELSE LET targetDate == IF date = Absent THEN NaN ELSE NewDate(ValueOf(date))
                dayStart == startOfDay(targetDate)
                dayEnd == endOfDay(targetDate)
            IN  IF isNaN(targetDate)
                THEN resp' = [op |-> "getWalksByDate", status |-> 400]
                ELSE \E ws \in findManyDesc(inRange(userId, dayStart, dayEnd)) :
                         resp' = [op |-> "getWalksByDate", status |-> 200,
                                  userId |-> userId, date |-> ValueOf(date),
                                  query |-> [gte |-> dayStart, lt |-> dayEnd],
                                  data |-> ws]
    /\ UNCHANGED <<client, tz, now, users, walks>>

\* the first days of the months January to April 1970, as day numbers
MonthFirsts == {0, 31, 59, 90}

\* new Date(now.getFullYear(), now.getMonth(), 1): local midnight of the
\* first day of the month of t
firstOfMonth(t) ==
    ToUTC(Max({f \in MonthFirsts : f <= LocalDay(t)}) * TicksPerDay)

\* new Date(now.getFullYear(), now.getMonth() + 1, 1)
firstOfNextMonth(t) ==
    ToUTC((0 - Max({0 - f : f \in {g \in MonthFirsts : g > LocalDay(t)}}))
          * TicksPerDay)

\* the range getWalkStats selects (lines 278-305); startDate and endDate are
\* the time values the query strings parse to (NaN when one does not parse)
statsRange(period, startDate, endDate) ==
    IF period = Some("week")
    THEN [start |-> startOfWeek(now), end |-> endOfWeek(startOfWeek(now))]
    ELSE IF period = Some("month")
    THEN [start |-> firstOfMonth(now), end |-> firstOfNextMonth(now)]
    ELSE IF startDate # Absent /\ endDate # Absent
    THEN [start |-> ValueOf(startDate), end |-> ValueOf(endDate)]
    ELSE [start |-> AddDays(now, 0 - DaysPerWeek), end |-> now]

\* Math.floor(n / d)
MathFloor(n, d) == n \div d

\* Math.round(n / d), d > 0: the nearest integer, a half rounds up
MathRound(n, d) == (2 * n + d) \div (2 * d)

\* an average distance is held in hundredths: toFixed(2) keeps two decimals
Hundredths == 100

\* Number((n / d).toFixed(2)), d > 0, in hundredths: the nearest hundredth,
\* a half rounds away from zero
toFixed2(n, d) ==
    IF n < 0 THEN 0 - MathRound(Hundredths * (0 - n), d)
    ELSE MathRound(Hundredths * n, d)

\* walks.forEach(...), lines 324-328, from walk i on
RECURSIVE sumWalks(_, _, _)
sumWalks(ws, i, stats) ==
    IF i > Len(ws) THEN stats
    ELSE sumWalks(ws, i + 1,
             [stats EXCEPT !.totalSteps = @ + ws[i].steps,
                           !.totalDistance = @ + ws[i].distance,
                           !.totalDuration = @ + ws[i].duration])

\* the statistics of lines 311-333 from the rows `ws` of the range
walkStats(ws, start, end) ==
    LET stats == [totalWalks |-> Len(ws), totalSteps |-> 0, totalDistance |-> 0,
                  totalDuration |-> 0, averageStepsPerWalk |-> 0,
                  averageDistancePerWalk |-> 0, averageDurationPerWalk |-> 0,
                  startDate |-> formatDateToYYYYMMDD(start),
                  endDate |-> formatDateToYYYYMMDD(end)]
        totals == sumWalks(ws, 1, stats)
    IN  IF Len(ws) > 0
        THEN [totals EXCEPT
                 !.averageStepsPerWalk = MathRound(totals.totalSteps, Len(ws)),
                 !.averageDistancePerWalk = toFixed2(totals.totalDistance, Len(ws)),
                 !.averageDurationPerWalk = MathRound(totals.totalDuration, Len(ws))]
        ELSE stats

\* GET /walks/user/:userId/stats?period=&startDate=&endDate=:
\* walkController.getWalkStats.  The response is recorded with the request's
\* parameters and the bounds of the query issued.
GetWalkStats(userId, period, startDate, endDate) ==
    /\ IF findUnique(userId) = {}
       THEN resp' = [op |-> "getWalkStats", status |-> 404]
       ELSE LET range == statsRange(period, startDate, endDate)
            IN  IF /\ period \notin {Some("week"), Some("month")}
                   /\ startDate # Absent /\ endDate # Absent
                   /\ (isNaN(range.start) \/ isNaN(range.end))
                THEN resp' = [op |-> "getWalkStats", status |-> 400]
                ELSE \E ws \in findManyDesc(inRange(userId, range.start, range.end)) :
                         resp' = [op |-> "getWalkStats", status |-> 200,
                                  userId |-> userId, period |-> period,
                                  startDate |-> startDate, endDate |-> endDate,
                                  query |-> [gte |-> range.start, lt |-> range.end],
                                  data |-> walkStats(ws, range.start, range.end)]
    /\ UNCHANGED <<client, tz, now, users, walks>>

\* ------------------------------------------------------- utils/goalUtils.ts

\* currentValue and goalValue are numbers of units, UnitsPerThousandth to the
\* thousandth: value * 1000 is a whole number only for some of them
UnitsPerThousandth == 2

\* Math.floor(value * 1000)
scaled(value) == value \div UnitsPerThousandth

\* the result of Math.min(99, Math.round(x)) for x = -Infinity: below every
\* percentage that a finite x gives
MinusInfinity(scaledCurrent) == 100 * scaledCurrent - 1

Min(a, b) == IF a <= b THEN a ELSE b

\* isGoalAchieved(currentValue, goalValue), for finite numbers
isGoalAchieved(currentValue, goalValue) ==
    IF goalValue <= 0 THEN FALSE
    ELSE scaled(currentValue) >= scaled(goalValue)

\* calculateGoalProgress(currentValue, goalValue), for finite numbers: with
\* scaledGoal 0 the percentage is a division by zero, which is not reached
\* when scaledCurrent >= 0 and is -Infinity below
calculateGoalProgress(currentValue, goalValue) ==
    IF goalValue <= 0 THEN 0
    ELSE LET scaledCurrent == scaled(currentValue)
             scaledGoal == scaled(goalValue)
         IN  IF scaledCurrent >= scaledGoal THEN 100
             ELSE IF scaledGoal = 0 THEN MinusInfinity(scaledCurrent)
             ELSE Min(99, MathRound(100 * scaledCurrent, scaledGoal))

\* a component evaluates both functions on the values in slot s
GoalProgress(s) ==
    /\ pending[s].op = "goal"
    /\ resp' = [op |-> "goal", currentValue |-> pending[s].currentValue,
                goalValue |-> pending[s].goalValue,
                achieved |-> isGoalAchieved(pending[s].currentValue,
                                            pending[s].goalValue),
                progress |-> calculateGoalProgress(pending[s].currentValue,
                                                   pending[s].goalValue)]
    /\ pending' = [pending EXCEPT ![s] = Idle]
    /\ UNCHANGED <<client, tz, now, users, walks>>

\* ------------------------------------------------------- the environment

\* a Sunday (day 3 of the epoch is Sunday 1970-01-04)
BaseDay == 3 + DaysPerWeek

Midnight(day) == day * TicksPerDay

\* Time zones: a fixed offset, or an offset with one daylight-saving
\* transition of one tick (forward or back) on BaseDay, when the local clock
\* (before the change) shows tick 1 of the day.
TimeZones ==
    {[base |-> b, shift |-> 0, at |-> 0] : b \in (0 - MaxOffset)..MaxOffset}
    \cup {[base |-> b, shift |-> s, at |-> Midnight(BaseDay) + 1 - b] :
            b \in (0 - MaxOffset)..MaxOffset, s \in {0 - 1, 1}}

NoResponse == [op |-> "none"]

\* ------------------------------------------- contexts/WalkContext.tsx: the client

\* The WalkProvider of a browser that holds nothing yet: the React state
\* `activities` and `userProfile`, the three localStorage items (Absent when
\* the item is not set; a stored list is the list JSON.parse gives back), and
\* the value Date.now() returns next.
FreshClient ==
    [activities |-> <<>>, userProfile |-> Absent,
     localStorage |-> [currentUserId |-> Absent, walkmateUserProfile |-> Absent,
                       walkActivities |-> Absent],
     dateNow |-> 0]

apiUserToUserProfile(apiUser) ==
    [id |-> apiUser.id,
     dailyGoal |-> [type |-> apiUser.goalType, value |-> apiUser.goalValue]]

\* createAndStoreNewUser lines 158-165: `||` replaces a goalValue of 0
newProfile(data) ==
    [id |-> data.id,
     dailyGoal |-> [type |-> data.goalType,
                    value |-> IF data.goalValue = 0 THEN DefaultGoalValue
                              ELSE data.goalValue]]

\* `temp_${Date.now()}`
tempIdOf(cl) == [kind |-> "temp", n |-> cl.dateNow]

\* lines 447-467: the activity with the temporary id, dated by the local
\* calendar day of its timestamp
tempActivity(activity, tempId, userId) ==
    [id |-> tempId, userId |-> userId, steps |-> activity.steps,
     distance |-> activity.distance, duration |-> activity.duration,
     date |-> LocalDay(activity.timestamp), timestamp |-> activity.timestamp]

\* lines 504-512: the activity built from the body of the 201 response
serverActivityOf(responseData, activity) ==
    [id |-> [kind |-> "server", n |-> responseData.id],
     userId |-> responseData.userId, steps |-> responseData.steps,
     distance |-> responseData.distance, duration |-> responseData.duration,
     date |-> LocalDay(activity.timestamp), timestamp |-> responseData.date]

\* list.map(act => act.id === tempId ? serverActivity : act)
replaceTemp(list, tempId, serverActivity) ==
    [i \in 1..Len(list) |->
        IF list[i].id = tempId THEN serverActivity ELSE list[i]]

\* lines 460-474, on the client `cl`: setActivities appends to the state of
\* the moment, localStorage gets the list the callback closed over plus the
\* temporary activity
optimisticUpdate(cl, activities, temp) ==
    [cl EXCEPT !.activities = Append(@, temp),
               !.localStorage.walkActivities = Some(Append(activities, temp)),
               !.dateNow = @ + 1]

\* the request of slot c once synchronizeUser has resolved with userId
Posting(c, cl, userId) ==
    [op |-> "addActivity", pc |-> "fetch", activity |-> pending[c].activity,
     activities |-> pending[c].activities, userId |-> userId,
     tempId |-> tempIdOf(cl)]

\* addActivity is called (lines 420-436): without a user profile it returns
\* at once; else the call holds the `activities` of the render that made the
\* callback and awaits synchronizeUser
AddActivity(c, activity) ==
    /\ pending[c] = Idle
    /\ Len(client.activities) < MaxWalks
    /\ IF client.userProfile = Absent
       THEN /\ resp' = [op |-> "addActivity", outcome |-> "no profile"]
            /\ UNCHANGED pending
       ELSE /\ pending' = [pending EXCEPT ![c] =
                              [op |-> "addActivity", pc |-> "synchronizeUser",
                               activity |-> activity,
                               activities |-> client.activities]]
            /\ UNCHANGED resp
    /\ UNCHANGED <<client, tz, now, users, walks>>

\* synchronizeUser up to its answer (lines 185-239): GET /api/users?id=
\* answers 200 or 404, or the fetch throws (`answered` is FALSE).  With the
\* user found, addActivity goes on to its optimistic update (lines 438-474).
SynchronizeUser(c, answered) ==
    /\ pending[c].op = "addActivity"
    /\ pending[c].pc = "synchronizeUser"
    /\ LET storedUserId == client.localStorage.currentUserId
           creating == [pending EXCEPT ![c].pc = "createAndStoreNewUser"]
       IN  IF storedUserId = Absent
           THEN /\ pending' = creating
                /\ UNCHANGED client
           ELSE IF ~answered
           THEN /\ client' = [client EXCEPT
                                !.localStorage.currentUserId = Absent,
                                !.localStorage.walkmateUserProfile = Absent]
                /\ pending' = creating
           ELSE IF findUnique(ValueOf(storedUserId)) = {}
           THEN /\ client' = [client EXCEPT !.localStorage = FreshClient.localStorage]
                /\ pending' = creating
           ELSE LET profile == apiUserToUserProfile(
                                   ValueOf(findUnique(ValueOf(storedUserId))))
                    cl == [client EXCEPT
                             !.localStorage.walkmateUserProfile = Some(profile),
                             !.userProfile = Some(profile)]
                    userId == ValueOf(storedUserId)
                    posting == Posting(c, cl, userId)
                IN  /\ client' = optimisticUpdate(cl, posting.activities,
                           tempActivity(posting.activity, posting.tempId, userId))
                    /\ pending' = [pending EXCEPT ![c] = posting]
    /\ UNCHANGED <<tz, now, users, walks, resp>>

\* createAndStoreNewUser, the request (lines 128-141): the server handles
\* POST /api/users and the answer is on its way back
CreateAndStoreNewUser(c) ==
    /\ pending[c].op = "addActivity"
    /\ pending[c].pc = "createAndStoreNewUser"
    /\ NextCreateUser(Some("steps"), Some(DefaultGoalValue))
    /\ pending' = [pending EXCEPT ![c] =
                      [op |-> "addActivity", pc |-> "userCreated",
                       activity |-> pending[c].activity,
                       activities |-> pending[c].activities,
                       response |-> resp']]

\* createAndStoreNewUser fails (lines 138-141, 171-173): synchronizeUser
\* resolves with null and addActivity returns (lines 438-443)
CreateUserFails(c) ==
    /\ pending[c].op = "addActivity"
    /\ pending[c].pc = "createAndStoreNewUser"
    /\ resp' = [op |-> "addActivity", outcome |-> "no user"]
    /\ pending' = [pending EXCEPT ![c] = Idle]
    /\ UNCHANGED <<client, tz, now, users, walks>>

\* createAndStoreNewUser, the answer (lines 143-170): the new id and profile
\* are stored; addActivity goes on to its optimistic update (lines 438-474)
UserCreated(c) ==
    /\ pending[c].op = "addActivity"
    /\ pending[c].pc = "userCreated"
    /\ LET data == pending[c].response.data
           cl == [client EXCEPT
                    !.localStorage.currentUserId = Some(data.id),
                    !.localStorage.walkmateUserProfile = Some(newProfile(data)),
                    !.userProfile = Some(newProfile(data))]
           posting == Posting(c, cl, data.id)
       IN  /\ client' = optimisticUpdate(cl, posting.activities,
                  tempActivity(posting.activity, posting.tempId, data.id))
           /\ pending' = [pending EXCEPT ![c] = posting]
    /\ UNCHANGED <<tz, now, users, walks, resp>>

\* lines 477-494: the server handles POST /api/walks and the answer is on its
\* way back
PostWalk(c) ==
    /\ pending[c].op = "addActivity"
    /\ pending[c].pc = "fetch"
    /\ LET activity == pending[c].activity
       IN  NextCreateWalk(pending[c].userId, Some(activity.steps),
                          Some(activity.distance), Some(activity.duration),
                          Some(activity.timestamp))
    /\ pending' = [pending EXCEPT ![c] =
                      [op |-> "addActivity", pc |-> "response",
                       activity |-> pending[c].activity,
                       activities |-> pending[c].activities,
                       userId |-> pending[c].userId,
                       tempId |-> pending[c].tempId,
                       response |-> resp']]

\* the fetch of line 488 throws: the catch block (lines 525-529) leaves the
\* optimistic update in place
PostWalkFails(c) ==
    /\ pending[c].op = "addActivity"
    /\ pending[c].pc = "fetch"
    /\ resp' = [op |-> "addActivity", outcome |-> "failed",
                tempId |-> pending[c].tempId,
                before |-> pending[c].activities]
    /\ pending' = [pending EXCEPT ![c] = Idle]
    /\ UNCHANGED <<client, tz, now, users, walks>>

\* the answer to POST /api/walks (lines 496-533).  response.ok: setActivities
\* replaces the temporary activity in the state of the moment, and
\* localStorage gets the replacement applied to the list the callback closed
\* over (lines 521-524).  Otherwise the catch block leaves both as they are.
WalkPosted(c) ==
    /\ pending[c].op = "addActivity"
    /\ pending[c].pc = "response"
    /\ LET p == pending[c]
       IN  IF p.response.status = 201
           THEN LET serverActivity == serverActivityOf(p.response.data, p.activity)
                IN  /\ client' = [client EXCEPT
                             !.activities = replaceTemp(@, p.tempId, serverActivity),
                             !.localStorage.walkActivities =
                                 Some(replaceTemp(p.activities, p.tempId,
                                                  serverActivity))]
                    /\ resp' = [op |-> "addActivity", outcome |-> "posted",
                                tempId |-> p.tempId,
                                serverActivity |-> serverActivity,
                                before |-> p.activities]
           ELSE /\ resp' = [op |-> "addActivity", outcome |-> "failed",
                            tempId |-> p.tempId, before |-> p.activities]
                /\ UNCHANGED client
    /\ pending' = [pending EXCEPT ![c] = Idle]
    /\ UNCHANGED <<tz, now, users, walks>>

\* --------------------------------------------- specification: the streak

\* `now` is some instant of BaseDay (UTC)
StreakNow == {Midnight(BaseDay) + k : k \in 0..(TicksPerDay - 1)}

\* walk dates: the first and the last tick of the UTC days BaseDay-2..BaseDay+1
StreakDates ==
    {Midnight(d) + k : d \in (BaseDay - 2)..(BaseDay + 1), k \in {0, TicksPerDay - 1}}

InitStreak ==
    /\ tz \in TimeZones
    /\ now \in StreakNow
    /\ users = {}
    /\ walks = {}
    /\ resp = NoResponse
    /\ client = FreshClient
    /\ pending = NoRequests

NextStreak ==
    \/ ExpressCreateUser(Absent, Absent) /\ UNCHANGED pending
    \/ \E date \in StreakDates :
            ExpressCreateWalk(1, Some(1), Some(1), Some(1), date) /\ UNCHANGED pending
    \/ \E u \in UserIds : GetUserStreak(u) /\ UNCHANGED pending

SpecStreak == InitStreak /\ [][NextStreak]_vars

\* ------------------------------------------------------ claims: the streak

\* the last request was a streak request that succeeded
StreakDone == resp.op = "getUserStreak" /\ resp.status = 200

\* the local calendar days on which the user of the response has a walk
WalkDays == {LocalDay(w.date) : w \in UserWalks(resp.userId)}

\* the local calendar day of `now`
Today == LocalDay(now)

\* Every timestamp involved (the walks' and `now`) has the same calendar day
\* in local time and in UTC: "calendar day" then reads the same under either
\* convention.
DaysUnambiguous ==
    /\ LocalDay(now) = ToISODate(now)
    /\ \A w \in UserWalks(resp.userId) : LocalDay(w.date) = ToISODate(w.date)

\* the server's zone has one fixed offset (no daylight saving)
FixedOffset == tz.shift = 0

\* the server's zone is UTC
InUTC == tz.base = 0 /\ tz.shift = 0

\* the length of the run of consecutive days of `days` that ends at day d
RECURSIVE RunLength(_, _)
RunLength(days, d) == IF d \in days THEN 1 + RunLength(days, d - 1) ELSE 0

\* C1: when the most recent walk day is today or yesterday, the streak is the
\* length of the maximal run of consecutive calendar days ending at that day
\* (stated for a fixed-offset zone and inputs whose calendar days are
\* unambiguous).
C1_StreakIsRunLength ==
    (StreakDone /\ WalkDays # {} /\ FixedOffset /\ DaysUnambiguous
        /\ Max(WalkDays) \in {Today, Today - 1})
    => resp.streak = RunLength(WalkDays, Max(WalkDays))

\* C2: grace period, for every time-zone offset: most recent walk yesterday
\* (none today) gives a streak of at least 1; most recent walk two or more
\* days ago gives 0.
C2_GracePeriod ==
    (StreakDone /\ WalkDays # {} /\ FixedOffset)
    => /\ Max(WalkDays) = Today - 1 => resp.streak >= 1
       /\ Max(WalkDays) <= Today - 2 => resp.streak = 0

\* C3: the streak depends only on the set of calendar days that have a walk:
\* without a walk whose calendar day has another walk, the streak is the same.
C3_SameDayWalksCountOnce ==
    (StreakDone /\ FixedOffset) =>
        \A w \in UserWalks(resp.userId) :
            (\E v \in UserWalks(resp.userId) \ {w} : LocalDay(v.date) = LocalDay(w.date))
            => \A ws \in findManyDesc(UserWalks(resp.userId) \ {w}) :
                   getUserStreak(ws, now) = resp.streak

\* C4: a streak n > 0 counts n consecutive calendar days the latest of which
\* is today or yesterday, whatever walk dates are stored (stated for a
\* server in UTC, where local and UTC calendar days are the same).
C4_StreakEndsTodayOrYesterday ==
    (StreakDone /\ resp.streak > 0 /\ InUTC)
    => /\ Max(WalkDays) \in {Today, Today - 1}
       /\ \A i \in 0..(resp.streak - 1) : Max(WalkDays) - i \in WalkDays

\* C5: the calendar-day key of a timestamp is its local calendar date: two
\* walks have the same key exactly when they are on the same local day, and
\* the key of `now` is the day of the `today` the streak comparison uses.
C5_KeyIsLocalDate ==
    (StreakDone /\ FixedOffset) =>
        /\ \A v, w \in UserWalks(resp.userId) :
               (formatDateToYYYYMMDD(v.date) = formatDateToYYYYMMDD(w.date))
               <=> (LocalDay(v.date) = LocalDay(w.date))
        /\ formatDateToYYYYMMDD(now) = LocalDay(SetHours(now, 0))

\* C6: for an existing user with no walks the streak request succeeds with 0.
C6_NoWalksNoStreak ==
    (resp.op = "getUserStreak" /\ resp.status # 404)
    => (UserWalks(resp.userId) = {} => resp.status = 200 /\ resp.streak = 0)

C6_Witness == StreakDone /\ UserWalks(resp.userId) = {} /\ resp.streak = 0

\* ------------------------------------ specification: the week of a report

\* anchors (?date=): every instant of the UTC days BaseDay-1..BaseDay+1 and
\* BaseDay+6..BaseDay+7, or none
WeekAnchors ==
    {Absent}
    \cup {Some(t) : t \in Midnight(BaseDay - 1)..(Midnight(BaseDay + 2) - 1)}
    \cup {Some(t) : t \in Midnight(BaseDay + 6)..(Midnight(BaseDay + 8) - 1)}

InitWeek ==
    /\ tz \in TimeZones
    /\ now \in StreakNow
    /\ users = {}
    /\ walks = {}
    /\ resp = NoResponse
    /\ client = FreshClient
    /\ pending = NoRequests

NextWeek ==
    \/ ExpressCreateUser(Absent, Absent) /\ UNCHANGED pending
    \/ \E date \in WeekAnchors : GetWeeklyReport(1, date) /\ UNCHANGED pending

SpecWeek == InitWeek /\ [][NextWeek]_vars

\* the last request was a weekly report that succeeded
ReportDone == resp.op = "getWeeklyReport" /\ resp.status = 200

\* the anchor of the report: the date supplied, or `now`
Anchor == IF resp.date = Absent THEN now ELSE ValueOf(resp.date)

\* C8: the report's week is the Sunday-to-Saturday week that holds the
\* anchor: weekStart is a Sunday at local midnight, not after the anchor;
\* weekEnd is the last tick of the Saturday six days later, not before the
\* anchor; startOfWeek is idempotent; without an anchor the week holds `now`.
C8_SundayToSaturdayWeek ==
    ReportDone =>
        LET weekStart == resp.query.gte
            weekEnd == resp.query.lte
        IN  /\ GetDay(weekStart) = 0
            /\ LocalTick(weekStart) = 0
            /\ weekStart <= Anchor
            /\ GetDay(weekEnd) = DaysPerWeek - 1
            /\ LocalTick(weekEnd) = TicksPerDay - 1
            /\ LocalDay(weekEnd) = LocalDay(weekStart) + (DaysPerWeek - 1)
            /\ Anchor <= weekEnd
            /\ startOfWeek(weekStart) = weekStart

\* a report for an anchor that is neither a Sunday nor at local midnight,
\* in a week with a daylight-saving transition
C8_Witness ==
    /\ ReportDone
    /\ resp.date # Absent
    /\ GetDay(Anchor) # 0
    /\ LocalTick(Anchor) # 0
    /\ tz.shift # 0
    /\ resp.query.gte < tz.at /\ tz.at < resp.query.lte

\* C29: in every report, for every anchor and zone, startDate is the date of
\* the first bucket of dailyData, endDate is the date of the seventh, and
\* endDate is the calendar date six days after startDate.
C29_DatesMatchBuckets ==
    ReportDone =>
        /\ Len(resp.data.dailyData) = DaysPerWeek
        /\ resp.data.startDate = resp.data.dailyData[1].date
        /\ resp.data.endDate = resp.data.dailyData[DaysPerWeek].date
        /\ resp.data.endDate = resp.data.startDate + (DaysPerWeek - 1)

\* ------------------------------------------ specification: weekly reports

\* the goal of the users of this specification
GoalValue == 2

\* walk dates: two ticks either side of the start and of the end of the week
\* of BaseDay (UTC), and two ticks of its Tuesday
ReportDates ==
    (Midnight(BaseDay) - 2)..(Midnight(BaseDay) + 1)
    \cup (Midnight(BaseDay + DaysPerWeek) - 2)..(Midnight(BaseDay + DaysPerWeek) + 1)
    \cup {Midnight(BaseDay + 2) + 1, Midnight(BaseDay + 2) + 2}

\* (steps, distance) of a walk the Express route accepts
ValidAmounts == {<<GoalValue - 1, 0>>, <<GoalValue, 0>>, <<0, GoalValue>>}

\* (steps, distance) that only the Next.js route stores
UncheckedAmounts == {<<0 - 1, 0>>}

ReportAnchors == {Absent, Some(Midnight(BaseDay) + 2)}

InitReport ==
    /\ tz \in TimeZones
    /\ now = Midnight(BaseDay + 3) + 1
    /\ users = {}
    /\ walks = {}
    /\ resp = NoResponse
    /\ client = FreshClient
    /\ pending = NoRequests

\* one user registers, with either goal type
NextReport ==
    \/ \E goalType \in {"steps", "distance"} :
            /\ users = {}
            /\ ExpressCreateUser(Some(goalType), Some(GoalValue))
            /\ UNCHANGED pending
    \/ \E a \in ValidAmounts, date \in ReportDates :
            ExpressCreateWalk(1, Some(a[1]), Some(a[2]), Some(1), date)
            /\ UNCHANGED pending
    \/ \E a \in UncheckedAmounts, date \in ReportDates :
            NextCreateWalk(1, Some(a[1]), Some(a[2]), Some(1), Some(date))
            /\ UNCHANGED pending
    \/ \E date \in ReportAnchors : GetWeeklyReport(1, date) /\ UNCHANGED pending

SpecReport == InitReport /\ [][NextReport]_vars

\* the sum of field f over a set of walks
RECURSIVE SumOf(_, _)
SumOf(ws, f) ==
    IF ws = {} THEN 0
    ELSE LET w == CHOOSE x \in ws : TRUE IN w[f] + SumOf(ws \ {w}, f)

\* the sum of field f over the buckets of a report
RECURSIVE SumBuckets(_, _)
SumBuckets(days, f) ==
    IF days = <<>> THEN 0 ELSE Head(days)[f] + SumBuckets(Tail(days), f)

\* the walks of the report's user dated within [weekStart, weekEnd]
WalksInWindow ==
    {w \in UserWalks(resp.userId) :
        resp.query.gte <= w.date /\ w.date <= resp.query.lte}

\* C7: week window exactness, for every time-zone offset: the walks that
\* contribute to the report (to a day bucket and to the weekly totals) are
\* exactly the user's walks with weekStart <= date <= weekEnd.
C7_WindowExact ==
    (ReportDone /\ FixedOffset) =>
        \A f \in {"steps", "distance", "duration"} :
            SumBuckets(resp.data.dailyData, f) = SumOf(WalksInWindow, f)

\* C9: dailyData has exactly 7 buckets, with 7 distinct dates in ascending
\* order, one for each consecutive calendar date of the week.
C9_SevenBuckets ==
    ReportDone =>
        /\ Len(resp.data.dailyData) = DaysPerWeek
        /\ \A i \in 1..Len(resp.data.dailyData) :
               resp.data.dailyData[i].date = resp.data.dailyData[1].date + (i - 1)

\* the row of the report's user
ReportUser == ValueOf(findUnique(resp.userId))

\* C10: goalMet of a bucket is true exactly when the bucket's final total of
\* the goal's metric reaches goalValue (stated for a server in UTC).
C10_GoalMetIffReached ==
    (ReportDone /\ InUTC) =>
        \A i \in 1..Len(resp.data.dailyData) :
            LET day == resp.data.dailyData[i]
            IN  day.goalMet <=>
                    \/ ReportUser.goalType = "steps" /\ day.steps >= ReportUser.goalValue
                    \/ ReportUser.goalType = "distance"
                       /\ day.distance >= ReportUser.goalValue

\* C11: the weekly totals are the sums of the day buckets; daysActive is the
\* number of buckets with steps, distance or duration above 0, and daysGoalMet
\* the number of buckets with goalMet.
C11_TotalsAreBucketSums ==
    ReportDone =>
        LET days == resp.data.dailyData
            totals == resp.data.weeklyTotals
        IN  /\ totals.totalSteps = SumBuckets(days, "steps")
            /\ totals.totalDistance = SumBuckets(days, "distance")
            /\ totals.totalDuration = SumBuckets(days, "duration")
            /\ totals.daysActive = Cardinality({i \in DOMAIN days :
                   days[i].steps > 0 \/ days[i].distance > 0 \/ days[i].duration > 0})
            /\ totals.daysGoalMet = Cardinality({i \in DOMAIN days : days[i].goalMet})

\* a report with two active days, one of them without steps, and one day
\* that met the goal
C11_Witness ==
    /\ ReportDone
    /\ resp.data.weeklyTotals.daysActive = 2
    /\ resp.data.weeklyTotals.daysGoalMet = 1
    /\ resp.data.weeklyTotals.totalSteps > 0
    /\ \E i \in DOMAIN resp.data.dailyData :
           resp.data.dailyData[i].steps = 0 /\ resp.data.dailyData[i].distance > 0

\* ------------------------- specification: a report among concurrent writes

\* the server's zone in the specifications that do not vary it
UTC == [base |-> 0, shift |-> 0, at |-> 0]

\* walk dates: Monday and Tuesday of the week of `now`
ConcurrentDates == {Midnight(BaseDay + 1) + 1, Midnight(BaseDay + 2) + 1}

\* goal values a user is given
ConcurrentGoals == {GoalValue, GoalValue + 1}

InitConcurrent ==
    /\ tz = UTC
    /\ now = Midnight(BaseDay + 3) + 1
    /\ users = {}
    /\ walks = {}
    /\ resp = NoResponse
    /\ client = FreshClient
    /\ pending = NoRequests

\* one user; walks are created and changed and the goal is updated while a
\* weekly report of the user is in flight
NextConcurrent ==
    \/ \E goalValue \in ConcurrentGoals :
            /\ users = {}
            /\ ExpressCreateUser(Some("steps"), Some(goalValue))
            /\ Observed
    \/ \E date \in ConcurrentDates :
            ExpressCreateWalk(1, Some(GoalValue), Some(0), Some(1), date) /\ Observed
    \/ \E goalValue \in ConcurrentGoals :
            ExpressUpdateUser(1, Absent, Some(goalValue)) /\ Observed
    \/ \E id \in WalkIds :
            ExpressUpdateWalk(id, Some(GoalValue + 1), Absent, Absent, Absent)
            /\ Observed
    \/ ReportCheckUser(1, 1, Absent)
    \/ ReportFindWalks(1)
    \/ ReportFindUser(1)

SpecConcurrent == InitConcurrent /\ [][NextConcurrent]_vars

\* C12: a report is the report of one single state of the store: of some
\* state that the store was in while the request was handled, with that
\* state's walks of the week and that state's goal of the user.
C12_ReportFromOneState ==
    ReportDone =>
        \E st \in resp.stores :
            \E user \in {u \in st[1] : u.id = resp.userId} :
                \E ws \in findManyAsc({w \in st[2] :
                                /\ w.userId = resp.userId
                                /\ w.date >= resp.query.gte
                                /\ w.date <= resp.query.lte}) :
                    resp.data = weeklyReport(ws, user, resp.query.gte, resp.query.lte)

\* ------------------------------------------ specification: the users

\* goalValue of a user request that supplies one: zero, negative, positive
UserGoals == {Some(0), Some(0 - 1), Some(GoalValue)}

\* ?date= of a report request: none, one that does not parse, one that does
UserAnchors == {Absent, Some(NaN), Some(Midnight(BaseDay - 1) + 1)}

InitUsers ==
    /\ tz = UTC
    /\ now = Midnight(BaseDay + 3) + 1
    /\ users = {}
    /\ walks = {}
    /\ resp = NoResponse
    /\ client = FreshClient
    /\ pending = NoRequests

\* every handler that writes a user, on every id, with and without each
\* field; reports are requested in between
NextUsers ==
    \/ \E goalType \in {Absent, Some("distance")}, goalValue \in {Absent} \cup UserGoals :
            ExpressCreateUser(goalType, goalValue) /\ UNCHANGED pending
    \/ \E goalType \in {Absent, Some("distance")}, goalValue \in {Absent} \cup UserGoals :
            NextCreateUser(goalType, goalValue) /\ UNCHANGED pending
    \/ \E id \in UserIds, goalType \in {Absent, Some("distance")},
          goalValue \in {Absent} \cup UserGoals :
            ExpressUpdateUser(id, goalType, goalValue) /\ UNCHANGED pending
    \/ \E id \in UserIds, goalType \in {Absent, Some("distance")},
          goalValue \in {Absent} \cup UserGoals :
            NextUpdateUser(id, goalType, goalValue) /\ UNCHANGED pending
    \/ \E id \in UserIds : NextDeleteUser(id) /\ UNCHANGED pending
    \/ \E id \in UserIds, date \in UserAnchors :
            GetWeeklyReport(id, date) /\ UNCHANGED pending

SpecUsers == InitUsers /\ [][NextUsers]_vars

\* C16: every stored user has goalValue > 0 and goalType steps or distance.
C16_GoalWellFormed ==
    \A u \in users : u.goalValue > 0 /\ u.goalType \in {"steps", "distance"}

\* C18: no weekly report is computed for a ?date= that does not parse (such
\* a request is answered 400).
C18_InvalidDateRejected ==
    (resp.op = "getWeeklyReport" /\ resp.status = 200)
    => ~(resp.date # Absent /\ isNaN(ValueOf(resp.date)))

\* ------------------------------------------ specification: the store

\* the date of the walks created
StoreDate == Midnight(BaseDay + 1) + 1

\* the date an update moves a walk to
LaterDate == Midnight(BaseDay + 2) + 1

InitStore ==
    /\ tz = UTC
    /\ now = Midnight(BaseDay + 3) + 1
    /\ users = {}
    /\ walks = {}
    /\ resp = NoResponse
    /\ client = FreshClient
    /\ pending = NoRequests

\* users are created, updated and deleted; walks are created by both routes,
\* updated and deleted, for every id, two delete requests at a time
NextStore ==
    \/ ExpressCreateUser(Absent, Absent) /\ UNCHANGED pending
    \/ \E id \in UserIds, goalType \in {Absent, Some("distance")},
          goalValue \in {Absent, Some(0), Some(GoalValue)} :
            ExpressUpdateUser(id, goalType, goalValue) /\ UNCHANGED pending
    \/ \E id \in UserIds : NextDeleteUser(id) /\ UNCHANGED pending
    \/ \E userId \in UserIds, steps \in {Some(0 - 1), Some(1)} :
            CreateWalkFindUser(1, userId, steps, Some(1), Some(1), StoreDate)
    \/ CreateWalkCreate(1)
    \/ \E userId \in UserIds, steps \in {Some(0 - 1), Some(1)} :
            NextCreateWalk(userId, steps, Some(1), Some(1), Some(StoreDate))
            /\ UNCHANGED pending
    \/ \E id \in WalkIds, steps \in {Absent, Some(0 - 1), Some(GoalValue)},
          date \in {Absent, Some(LaterDate)} :
            ExpressUpdateWalk(id, steps, Absent, Absent, date) /\ UNCHANGED pending
    \/ \E s \in Slots, id \in WalkIds : DeleteWalkFind(s, id)
    \/ \E s \in Slots : DeleteWalkDelete(s)

SpecStore == InitStore /\ [][NextStore]_vars

\* C13: a create-walk request that names a userId matching no user answers
\* 404 and leaves the walks as they are, on the Express route and on the
\* Next.js route.
C13_UnknownUserCreatesNoWalk ==
    [][\A userId \in UserIds :
          findUnique(userId) = {} =>
              /\ CreateWalkFindUser(1, userId, Some(1), Some(1), Some(1), StoreDate)
                 => (resp'.status = 404 /\ walks' = walks)
              /\ NextCreateWalk(userId, Some(1), Some(1), Some(1), Some(StoreDate))
                 => (resp'.status = 404 /\ walks' = walks)]_vars

\* C14: every stored walk's userId is the id of a user that exists.
C14_WalkOwnerExists == \A w \in walks : findUnique(w.userId) # {}

\* the delete of a user who has walks was refused
C14_Witness ==
    /\ resp.op = "nextDeleteUser" /\ resp.status = 500
    /\ findUnique(resp.id) # {}
    /\ UserWalks(resp.id) # {}

\* C15: every stored walk has steps, distance and duration of 0 or more.
C15_NoNegativeAmounts ==
    \A w \in walks : w.steps >= 0 /\ w.distance >= 0 /\ w.duration >= 0

\* C17: an Express request on a user id or walk id that does not exist is
\* answered 404 and leaves the store as it is, at each database call of its
\* handler (update user, create walk, update walk, delete walk).
C17_MissingIdIs404 ==
    [][/\ \A id \in UserIds, goalType \in {Absent, Some("distance")} :
            (findUnique(id) = {} /\ ExpressUpdateUser(id, goalType, Some(GoalValue)))
            => (resp'.status = 404 /\ users' = users /\ walks' = walks)
       /\ \A userId \in UserIds :
            (findUnique(userId) = {}
                /\ CreateWalkFindUser(1, userId, Some(1), Some(1), Some(1), StoreDate))
            => (resp'.status = 404 /\ users' = users /\ walks' = walks)
       /\ \A id \in WalkIds, date \in {Absent, Some(LaterDate)} :
            (findUniqueWalk(id) = {}
                /\ ExpressUpdateWalk(id, Some(GoalValue), Absent, Absent, date))
            => (resp'.status = 404 /\ users' = users /\ walks' = walks)
       /\ \A s \in Slots, id \in WalkIds :
            (findUniqueWalk(id) = {} /\ DeleteWalkFind(s, id))
            => (resp'.status = 404 /\ users' = users /\ walks' = walks)
       /\ \A s \in Slots :
            (pending[s].op = "deleteWalk" /\ findUniqueWalk(pending[s].id) = {}
                /\ DeleteWalkDelete(s))
            => (resp'.status = 404 /\ users' = users /\ walks' = walks)]_vars

\* ------------------------------------------ specification: the updates

\* the fields a PUT /users/:id or PUT /api/users request may carry
UpdateGoalTypes == {Absent, Some("distance")}

UpdateGoalValues == {Absent, Some(GoalValue)}

\* the fields a PUT /walks/:id request may carry
UpdateAmounts == {Absent, Some(GoalValue)}

UpdateDates == {Absent, Some(LaterDate)}

InitUpdates ==
    /\ tz = UTC
    /\ now = Midnight(BaseDay + 3) + 1
    /\ users = {}
    /\ walks = {}
    /\ resp = NoResponse
    /\ client = FreshClient
    /\ pending = NoRequests

\* users and walks are created, then updated with every choice of supplied
\* fields
NextUpdates ==
    \/ ExpressCreateUser(Absent, Absent) /\ UNCHANGED pending
    \/ ExpressCreateWalk(1, Some(1), Some(1), Some(1), StoreDate) /\ UNCHANGED pending
    \/ \E id \in UserIds, goalType \in UpdateGoalTypes,
          goalValue \in UpdateGoalValues \cup {Some(0)} :
            ExpressUpdateUser(id, goalType, goalValue) /\ UNCHANGED pending
    \/ \E id \in UserIds, goalType \in UpdateGoalTypes, goalValue \in UpdateGoalValues :
            NextUpdateUser(id, goalType, goalValue) /\ UNCHANGED pending
    \/ \E id \in WalkIds, steps \in UpdateAmounts \cup {Some(0 - 1)},
          date \in UpdateDates :
            ExpressUpdateWalk(id, steps, Absent, Absent, date) /\ UNCHANGED pending

SpecUpdates == InitUpdates /\ [][NextUpdates]_vars

\* the row of `after` with the id of `old` has the fields of `old` except
\* those supplied, and the other rows of `after` are those of `before`
OnlySupplied(before, after, old, supplied) ==
    \E new \in after :
        /\ new.id = old.id
        /\ \A f \in DOMAIN old : supplied[f] = Absent => new[f] = old[f]
        /\ after \ {new} = before \ {old}

BodyValues == {Undefined, Str(""), Str("abc"), Str("2025-03-10"), Num(0 - 1), Num(GoalValue)}

FieldsOf(rules) == {rules[i].field : i \in DOMAIN rules}

\* the requests: any body on any of the validated routes
Requests ==
    UNION {{[op |-> "request", rules |-> rules, data |-> data] :
                data \in [FieldsOf(rules) -> BodyValues]} :
           rules \in {CreateWalkRules, UpdateWalkRules, CreateUserRules,
                      UpdateUserRules}}

\* one request has arrived
InitValidate ==
    /\ tz = UTC
    /\ now = Midnight(BaseDay + 3) + 1
    /\ users = {}
    /\ walks = {}
    /\ resp = NoResponse
    /\ client = FreshClient
    /\ \E r \in Requests : pending = [s \in Slots |-> IF s = 1 THEN r ELSE Idle]

NextValidate == Validate(1)

SpecValidate == InitValidate /\ [][NextValidate]_vars

\* a field violates its rule: required and missing; of the wrong type (a
\* number where a string is required, a string that is no number where a
\* number is required); a number below min or above max; a date that does
\* not parse
Violates(rule, value) ==
    \/ rule.required /\ value \in {Undefined, Null, Str("")}
    \/ /\ value \notin {Undefined, Null}
       /\ \/ rule.type = "string" /\ value.t # "string"
          \/ rule.type = "number" /\ value \in {Str("abc"), Str("2025-03-10")}
          \/ rule.type = "number" /\ value.t = "number"
                /\ \/ \E m \in rule.min : value.n < m
                   \/ \E m \in rule.max : value.n > m
          \/ rule.type = "date" /\ value \in {Str(""), Str("abc")}

\* an optional number field holding the empty string, which Number() reads
\* as 0: whether that is a value of the wrong type is left open
Lenient(rule, value) ==
    rule.type = "number" /\ ~rule.required /\ value = Str("")

\* C19: when fields violate their rules the response is 400, the errors
\* name every violating field and the controller is not invoked; when none
\* does, the controller is invoked once (stated for the bodies without an
\* empty string in an optional number field).
C19_EveryViolationReported ==
    (/\ resp.op = "validateRequest"
     /\ \A i \in DOMAIN resp.rules :
            ~Lenient(resp.rules[i], resp.data[resp.rules[i].field])) =>
        LET violating == {i \in DOMAIN resp.rules :
                             Violates(resp.rules[i], resp.data[resp.rules[i].field])}
        IN  IF violating # {}
            THEN /\ resp.result.status = 400
                 /\ resp.result.next = 0
                 /\ \A i \in violating : \E j \in DOMAIN resp.result.errors :
                        resp.result.errors[j].field = resp.rules[i].field
            ELSE resp.result.next = 1

\* ----------------------------------- specification: the totals of a report

\* walk dates: Sunday and two instants of Tuesday of the week of `now`
TotalsDates == {Midnight(BaseDay) + 1, Midnight(BaseDay + 2) + 1, Midnight(BaseDay + 2) + 2}

InitTotals ==
    /\ tz \in TimeZones
    /\ now = Midnight(BaseDay + 3) + 1
    /\ users = {}
    /\ walks = {}
    /\ resp = NoResponse
    /\ client = FreshClient
    /\ pending = NoRequests

\* one user with either goal type; walks below and at the goal, with and
\* without steps; reports of the week
NextTotals ==
    \/ \E goalType \in {"steps", "distance"} :
            /\ users = {}
            /\ ExpressCreateUser(Some(goalType), Some(GoalValue))
            /\ UNCHANGED pending
    \/ \E a \in ValidAmounts, date \in TotalsDates :
            ExpressCreateWalk(1, Some(a[1]), Some(a[2]), Some(1), date)
            /\ UNCHANGED pending
    \/ GetWeeklyReport(1, Absent) /\ UNCHANGED pending

SpecTotals == InitTotals /\ [][NextTotals]_vars

\* ------------------------------- specification: the owners of the walks

InitOwners ==
    /\ tz = UTC
    /\ now = Midnight(BaseDay + 3) + 1
    /\ users = {}
    /\ walks = {}
    /\ resp = NoResponse
    /\ client = FreshClient
    /\ pending = NoRequests

\* users are created, updated and deleted while walks are created (by both
\* routes, the Express one call by call), updated and deleted
NextOwners ==
    \/ ExpressCreateUser(Absent, Absent) /\ UNCHANGED pending
    \/ \E id \in UserIds :
            ExpressUpdateUser(id, Some("distance"), Absent) /\ UNCHANGED pending
    \/ \E id \in UserIds : NextDeleteUser(id) /\ UNCHANGED pending
    \/ \E userId \in UserIds :
            CreateWalkFindUser(1, userId, Some(1), Some(1), Some(1), StoreDate)
    \/ CreateWalkCreate(1)
    \/ \E userId \in UserIds :
            NextCreateWalk(userId, Some(1), Some(1), Some(1), Some(StoreDate))
            /\ UNCHANGED pending
    \/ \E id \in WalkIds :
            ExpressUpdateWalk(id, Absent, Absent, Absent, Some(LaterDate))
            /\ UNCHANGED pending
    \/ \E id \in WalkIds : DeleteWalkFind(2, id)
    \/ DeleteWalkDelete(2)

SpecOwners == InitOwners /\ [][NextOwners]_vars

\* ------------------------------- specification: the statistics of walks

\* walk dates: Monday of the week of `now`, and the Thursday before it
StatsDates == {Midnight(BaseDay + 1) + 1, Midnight(BaseDay - 3) + 1}

\* (steps, distance, duration) of the walks the Express route stores
StatsAmounts == {<<1, 1, 1>>, <<2, 1, 3>>, <<0, 2, 0>>}

\* (steps, distance, duration) of the walks only the Next.js route stores
StatsUnchecked == {<<0 - 2, 0, 1>>}

\* the custom range of the requests: Sunday to Wednesday of the week of `now`
StatsFrom == Midnight(BaseDay)

StatsTo == Midnight(BaseDay + 3)

InitStats ==
    /\ tz = UTC
    /\ now = Midnight(BaseDay + 3) + 1
    /\ users = {}
    /\ walks = {}
    /\ resp = NoResponse
    /\ client = FreshClient
    /\ pending = NoRequests

\* two users; walks of both, in and out of the ranges; statistics of every
\* kind of range
NextStats ==
    \/ ExpressCreateUser(Absent, Absent) /\ UNCHANGED pending
    \/ \E userId \in UserIds, a \in StatsAmounts, date \in StatsDates :
            ExpressCreateWalk(userId, Some(a[1]), Some(a[2]), Some(a[3]), date)
            /\ UNCHANGED pending
    \/ \E a \in StatsUnchecked, date \in StatsDates :
            NextCreateWalk(1, Some(a[1]), Some(a[2]), Some(a[3]), Some(date))
            /\ UNCHANGED pending
    \/ \E userId \in UserIds, period \in {Absent, Some("week"), Some("month")},
          range \in {<<Absent, Absent>>, <<Some(StatsFrom), Some(StatsTo)>>} :
            GetWalkStats(userId, period, range[1], range[2]) /\ UNCHANGED pending

SpecStats == InitStats /\ [][NextStats]_vars

\* the last request was a statistics request that succeeded
StatsDone == resp.op = "getWalkStats" /\ resp.status = 200

\* the walks of the user of the statistics within the range queried
WalksInRange ==
    {w \in UserWalks(resp.userId) :
        resp.query.gte <= w.date /\ w.date < resp.query.lt}

\* totalWalks is the number of the user's walks in the range, and the totals
\* are the sums of their fields
TotalsAreSums ==
    /\ resp.data.totalWalks = Cardinality(WalksInRange)
    /\ resp.data.totalSteps = SumOf(WalksInRange, "steps")
    /\ resp.data.totalDistance = SumOf(WalksInRange, "distance")
    /\ resp.data.totalDuration = SumOf(WalksInRange, "duration")

\* without a walk in the range every total and average is 0
EmptyRangeIsZero ==
    WalksInRange = {} =>
        /\ resp.data.totalSteps = 0 /\ resp.data.totalDistance = 0
        /\ resp.data.totalDuration = 0 /\ resp.data.averageStepsPerWalk = 0
        /\ resp.data.averageDistancePerWalk = 0
        /\ resp.data.averageDurationPerWalk = 0

\* C21, as claimed: totalWalks is the number of the user's walks in the
\* range, the totals are the sums of their fields, each average is exactly
\* total / count (the distance average held in hundredths), and all are 0
\* without a walk in the range.
C21_AveragesAreExactMeans ==
    StatsDone =>
        /\ TotalsAreSums
        /\ EmptyRangeIsZero
        /\ resp.data.totalWalks > 0 =>
            /\ resp.data.averageStepsPerWalk * resp.data.totalWalks
                   = resp.data.totalSteps
            /\ resp.data.averageDistancePerWalk * resp.data.totalWalks
                   = Hundredths * resp.data.totalDistance
            /\ resp.data.averageDurationPerWalk * resp.data.totalWalks
                   = resp.data.totalDuration

\* a is n / d rounded to the nearest integer, a half rounded up
IsRounded(a, n, d) == d * (2 * a - 1) <= 2 * n /\ 2 * n < d * (2 * a + 1)

\* a is n / d rounded to the nearest integer, a half rounded either way
IsNearest(a, n, d) == d * (2 * a - 1) <= 2 * n /\ 2 * n <= d * (2 * a + 1)

\* C21, amended: totalWalks is the number of the user's walks in the range,
\* the totals are the sums of their fields, the averages of steps and of
\* duration are total / count rounded to the nearest integer (a half rounds
\* up), the average distance is total / count rounded to two decimals, and
\* all are 0 without a walk in the range.
C21_AveragesAreRoundedMeans ==
    StatsDone =>
        /\ TotalsAreSums
        /\ EmptyRangeIsZero
        /\ resp.data.totalWalks > 0 =>
            /\ IsRounded(resp.data.averageStepsPerWalk, resp.data.totalSteps,
                         resp.data.totalWalks)
            /\ IsNearest(resp.data.averageDistancePerWalk,
                         Hundredths * resp.data.totalDistance, resp.data.totalWalks)
            /\ IsRounded(resp.data.averageDurationPerWalk, resp.data.totalDuration,
                         resp.data.totalWalks)

\* statistics of two walks whose steps have no whole mean: 3 / 2 is
\* reported as 2
C21_Witness ==
    /\ StatsDone
    /\ resp.data.totalWalks = 2
    /\ resp.data.totalSteps = 3
    /\ resp.data.averageStepsPerWalk = 2

\* --------------------------- specification: the range of the statistics

\* walk dates: two ticks either side of the start and of the end of the week
\* of `now` (as ReportDates), the ends of the custom range, `now` and the
\* instant seven days before it, and the first and last ticks of January
RangeDates ==
    ReportDates
    \cup {StatsFrom, StatsTo}
    \cup {Midnight(BaseDay + 3) + 1, Midnight(BaseDay + 3 - DaysPerWeek) + 1}
    \cup {0, 1, Midnight(31) - 1, Midnight(31)}

InitRange ==
    /\ tz \in TimeZones
    /\ now = Midnight(BaseDay + 3) + 1
    /\ users = {}
    /\ walks = {}
    /\ resp = NoResponse
    /\ client = FreshClient
    /\ pending = NoRequests

\* one user, walks at the ends of every range, statistics of every kind of
\* range
NextRange ==
    \/ ExpressCreateUser(Absent, Absent) /\ users = {} /\ UNCHANGED pending
    \/ \E date \in RangeDates :
            ExpressCreateWalk(1, Some(1), Some(1), Some(1), date) /\ UNCHANGED pending
    \/ \E period \in {Absent, Some("week"), Some("month")},
          range \in {<<Absent, Absent>>, <<Some(StatsFrom), Some(StatsTo)>>} :
            GetWalkStats(1, period, range[1], range[2]) /\ UNCHANGED pending

SpecRange == InitRange /\ [][NextRange]_vars

\* the user's walks dated from `from` on and before `to`
DatedWithin(from, to) ==
    {w \in UserWalks(resp.userId) : from <= w.date /\ w.date < to}

\* the user's walks of the current week: from Sunday, local midnight, through
\* the last tick of Saturday
DatedThisWeek ==
    {w \in UserWalks(resp.userId) :
        startOfWeek(now) <= w.date /\ w.date <= endOfWeek(now)}

\* the walks a statistics request is to count, by the kind of its range
WalksToCount ==
    IF resp.period = Some("week") THEN DatedThisWeek
    ELSE IF resp.period = Some("month")
    THEN DatedWithin(firstOfMonth(now), firstOfNextMonth(now))
    ELSE IF resp.startDate # Absent /\ resp.endDate # Absent
    THEN DatedWithin(ValueOf(resp.startDate), ValueOf(resp.endDate))
    ELSE DatedWithin(AddDays(now, 0 - DaysPerWeek), now)

\* C22: the statistics count the walks of the range selected: period=week,
\* the current Sunday-to-Saturday week, every walk dated inside it included
\* (also one at the last tick of Saturday); period=month, from the first of
\* the current month to the first of the next; otherwise the given
\* [startDate, endDate); otherwise the seven days ending now.
C22_RangeSelected ==
    StatsDone => resp.data.totalWalks = Cardinality(WalksToCount)

\* ------------------------------- specification: the walks of a date

\* walk dates: every tick from the last of the day before BaseDay to the
\* first of the day after BaseDay + 1
ByDateDates == (Midnight(BaseDay) - 1)..Midnight(BaseDay + 2)

\* the :date of a request: BaseDay, the day after, or no date
ByDateParams == {Some(BaseDay), Some(BaseDay + 1), Absent}

InitByDate ==
    /\ tz \in TimeZones
    /\ now = Midnight(BaseDay + 3) + 1
    /\ users = {}
    /\ walks = {}
    /\ resp = NoResponse
    /\ client = FreshClient
    /\ pending = NoRequests

\* two users, walks of both on every tick of two days, the walks of a date
NextByDate ==
    \/ ExpressCreateUser(Absent, Absent) /\ UNCHANGED pending
    \/ \E userId \in UserIds, date \in ByDateDates :
            ExpressCreateWalk(userId, Some(1), Some(1), Some(1), date)
            /\ UNCHANGED pending
    \/ \E userId \in UserIds, date \in ByDateParams :
            GetWalksByDate(userId, date) /\ UNCHANGED pending

SpecByDate == InitByDate /\ [][NextByDate]_vars

\* the last request was a walks-of-a-date request that succeeded
ByDateDone == resp.op = "getWalksByDate" /\ resp.status = 200

\* the rows of a response
Returned == {resp.data[i] : i \in DOMAIN resp.data}

\* C23: the walks returned for a date are exactly the walks of that user
\* whose timestamp is on that calendar date, from its first tick through its
\* last, in the server's zone, for every zone.
C23_WalksOfThatDate ==
    ByDateDone =>
        Returned = {w \in UserWalks(resp.userId) : LocalDay(w.date) = resp.date}

\* --------------------------------- specification: reading what was written

\* (steps, distance, duration) of the walks created
SentAmounts == <<1, 2, 3>>

\* the dates of the walks created
SentDates == {StoreDate, LaterDate}

InitReadWrite ==
    /\ tz = UTC
    /\ now = Midnight(BaseDay + 3) + 1
    /\ users = {}
    /\ walks = {}
    /\ resp = NoResponse
    /\ client = FreshClient
    /\ pending = NoRequests

\* two users; walks of both are created, moved to another date and deleted
\* (two delete requests at a time), and listed in between
NextReadWrite ==
    \/ ExpressCreateUser(Absent, Absent) /\ UNCHANGED pending
    \/ \E userId \in UserIds, date \in SentDates :
            ExpressCreateWalk(userId, Some(SentAmounts[1]), Some(SentAmounts[2]),
                              Some(SentAmounts[3]), date)
            /\ UNCHANGED pending
    \/ \E id \in WalkIds :
            ExpressUpdateWalk(id, Absent, Absent, Absent, Some(LaterDate))
            /\ UNCHANGED pending
    \/ \E s \in Slots, id \in WalkIds : DeleteWalkFind(s, id)
    \/ \E s \in Slots : DeleteWalkDelete(s)
    \/ \E userId \in UserIds : GetUserWalks(userId) /\ UNCHANGED pending

SpecReadWrite == InitReadWrite /\ [][NextReadWrite]_vars

\* the last request was a get-user-walks request that succeeded
UserWalksDone == resp.op = "getUserWalks" /\ resp.status = 200

\* C24: read after write.  A successful create-walk for user U adds one walk,
\* with U as its userId and the steps, distance, duration and date sent, and
\* leaves the other walks as they are; a successful delete-walk removes the
\* walk of that id and no other; get-user-walks for U returns the stored
\* walks of U, each once, and of no other user, most recent date first.
C24_ReadAfterWrite ==
    /\ [](UserWalksDone =>
            /\ Returned = {w \in walks : w.userId = resp.userId}
            /\ Len(resp.data) = Cardinality(Returned)
            /\ \A i, j \in DOMAIN resp.data :
                   i < j => resp.data[i].date >= resp.data[j].date)
    /\ [][/\ \A userId \in UserIds, date \in SentDates :
               (/\ ExpressCreateWalk(userId, Some(SentAmounts[1]),
                                     Some(SentAmounts[2]), Some(SentAmounts[3]), date)
                /\ resp'.status = 201)
               => \E w \in walks' \ walks :
                      /\ walks' = walks \cup {w}
                      /\ w.userId = userId /\ w.date = date
                      /\ <<w.steps, w.distance, w.duration>> = SentAmounts
          /\ \A s \in Slots :
               (DeleteWalkDelete(s) /\ resp'.status = 200)
               => /\ findUniqueWalk(pending[s].id) # {}
                  /\ walks' = walks \ findUniqueWalk(pending[s].id)
                  /\ \A w \in walks' : w.id # pending[s].id]_vars

\* a listing of two walks in which the walk created last comes first
C24_Witness ==
    /\ UserWalksDone
    /\ Len(resp.data) = 2
    /\ resp.data[1].date > resp.data[2].date
    /\ resp.data[1].id > resp.data[2].id

\* ------------------------------ specification: the deletion of users

InitDeleteUser ==
    /\ tz = UTC
    /\ now = Midnight(BaseDay + 3) + 1
    /\ users = {}
    /\ walks = {}
    /\ resp = NoResponse
    /\ client = FreshClient
    /\ pending = NoRequests

\* two users; walks of both are created and deleted; users are deleted, by
\* requests with every id and without one
NextDeleteUsers ==
    \/ ExpressCreateUser(Absent, Absent) /\ UNCHANGED pending
    \/ \E userId \in UserIds, date \in SentDates :
            ExpressCreateWalk(userId, Some(1), Some(1), Some(1), date)
            /\ UNCHANGED pending
    \/ \E id \in WalkIds : DeleteWalkFind(1, id)
    \/ DeleteWalkDelete(1)
    \/ \E id \in {Absent} \cup {Some(i) : i \in UserIds} :
            NextDeleteUserRequest(id) /\ UNCHANGED pending

SpecDeleteUser == InitDeleteUser /\ [][NextDeleteUsers]_vars

\* C25: a delete-user request never removes or alters a walk: whatever its
\* outcome (200, 400 or 500), the stored walks after it are those before it.
C25_DeleteUserKeepsWalks ==
    [][\A id \in {Absent} \cup {Some(i) : i \in UserIds} :
           NextDeleteUserRequest(id) => walks' = walks]_vars

\* a user was deleted while walks (of the other user) are stored
C25_Witness ==
    /\ resp.op = "nextDeleteUser" /\ resp.status = 200
    /\ walks # {}
    /\ findUnique(resp.id) = {}

\* ------------------------------ specification: walks created in batches

\* the walks of a batch: one that can be created and one without steps,
\* whose create throws
BatchWalks ==
    {[steps |-> steps, distance |-> 2, duration |-> 3, date |-> StoreDate] :
        steps \in {Some(1), Absent}}

\* the batches: every list of at most MaxWalks such walks
Batches == UNION {[1..n -> BatchWalks] : n \in 0..MaxWalks}

\* the rows that the transactions in flight in the slots S have to write
RECURSIVE Reserved(_)
Reserved(S) ==
    IF S = {} THEN 0
    ELSE LET s == CHOOSE t \in S : TRUE
         IN  (IF pending[s].op = "batchCreateWalks" THEN Len(pending[s].input) ELSE 0)
             + Reserved(S \ {s})

\* table Walk has room for the rows of `input` besides those stored and those
\* of the transactions in flight
RoomFor(input) == Cardinality(walks) + Reserved(Slots) + Len(input) <= MaxWalks

InitBatch ==
    /\ tz = UTC
    /\ now = Midnight(BaseDay + 3) + 1
    /\ users = {}
    /\ walks = {}
    /\ resp = NoResponse
    /\ client = FreshClient
    /\ pending = NoRequests

\* two users are created and deleted while batches of walks, two at a time,
\* are created for them; the delete of a user waits for the transactions that
\* have written a walk of the user (the row lock of the foreign key)
NextBatch ==
    \/ ExpressCreateUser(Absent, Absent) /\ UNCHANGED pending
    \/ \E id \in UserIds :
            /\ \A w \in Uncommitted : w.userId # id
            /\ NextDeleteUser(id)
            /\ UNCHANGED pending
    \/ \E s \in Slots, userId \in UserIds, input \in Batches :
            RoomFor(input) /\ BatchFindUser(s, userId, input)
    \/ \E s \in Slots : BatchCreate(s)
    \/ \E s \in Slots : BatchCommit(s)

SpecBatch == InitBatch /\ [][NextBatch]_vars

\* row w is the walk walkData of a batch, stored for user userId
StoredAs(w, walkData, userId) ==
    /\ w.userId = userId
    /\ w.steps = ValueOf(walkData.steps)
    /\ w.distance = walkData.distance
    /\ w.duration = walkData.duration
    /\ w.date = walkData.date

\* the rows of `new` are the walks of `input`, one each, for user userId
StoredFrom(new, input, userId) ==
    /\ Cardinality(new) = Len(input)
    /\ \A i \in DOMAIN input : \E w \in new : StoredAs(w, input[i], userId)
    /\ \A w \in new : \E i \in DOMAIN input : StoredAs(w, input[i], userId)

\* C26: batchCreateWalks is all-or-nothing.  Without the user it is rejected
\* and stores nothing; no walk of a batch is stored before the batch has
\* succeeded, and none when a create fails; when it succeeds every walk of
\* the input is stored with the given userId and the count returned is the
\* length of the input.
C26_BatchAllOrNothing ==
    [][\A s \in Slots :
          /\ \A userId \in UserIds, input \in Batches :
                 BatchFindUser(s, userId, input) =>
                     /\ walks' = walks
                     /\ findUnique(userId) = {} =>
                            (resp'.op = "batchCreateWalks"
                                /\ resp'.settled = "rejected" /\ pending'[s] = Idle)
          /\ BatchCreate(s) =>
                 /\ walks' = walks
                 /\ createThrows(pending[s].input[Len(pending[s].created) + 1],
                                 pending[s].userId)
                    => (resp'.settled = "rejected" /\ pending'[s] = Idle)
          /\ BatchCommit(s) =>
                 /\ resp'.settled = "resolved"
                 /\ resp'.count = Len(pending[s].input)
                 /\ walks \subseteq walks'
                 /\ StoredFrom(walks' \ walks, pending[s].input, pending[s].userId)]_vars

\* a batch of two walks was stored whole
C26_Witness ==
    /\ resp.op = "batchCreateWalks" /\ resp.settled = "resolved"
    /\ resp.count = 2
    /\ Cardinality(walks) = 2

\* ------------------------------------ specification: progress to a goal

\* currentValue and goalValue range over -MaxValue..MaxValue units
MaxValue == 6

GoalInputs == (0 - MaxValue)..MaxValue

\* one pair of values is to be evaluated
InitGoal ==
    /\ tz = UTC
    /\ now = Midnight(BaseDay + 3) + 1
    /\ users = {}
    /\ walks = {}
    /\ resp = NoResponse
    /\ client = FreshClient
    /\ \E currentValue \in GoalInputs, goalValue \in GoalInputs :
           pending = [s \in Slots |->
               IF s = 1 THEN [op |-> "goal", currentValue |-> currentValue,
                              goalValue |-> goalValue]
               ELSE Idle]

NextGoal == GoalProgress(1)

SpecGoal == InitGoal /\ [][NextGoal]_vars

\* the value is a whole number of thousandths
InThousandths(value) == value % UnitsPerThousandth = 0

\* C27: for every currentValue and goalValue (whole numbers of thousandths)
\* the progress is in 0..100, is 100 exactly when isGoalAchieved is true and
\* at most 99 otherwise, and with goalValue <= 0 the results are false and 0.
C27_ProgressInRange ==
    (/\ resp.op = "goal"
     /\ InThousandths(resp.currentValue) /\ InThousandths(resp.goalValue)) =>
        /\ resp.progress \in 0..100
        /\ resp.progress = 100 <=> resp.achieved
        /\ ~resp.achieved => resp.progress <= 99
        /\ resp.goalValue <= 0 => (~resp.achieved /\ resp.progress = 0)

\* ------------------- specification: the service with and without transaction

\* walk dates: Tuesday and Wednesday of the week of `now`, and `now`
ServiceDates == {Midnight(BaseDay + 2) + 1, Midnight(BaseDay + 3), Midnight(BaseDay + 3) + 1}

InitService ==
    /\ tz \in TimeZones
    /\ now = Midnight(BaseDay + 3) + 1
    /\ users = {}
    /\ walks = {}
    /\ resp = NoResponse
    /\ client = FreshClient
    /\ pending = NoRequests

\* two users, walks of both, users deleted; the four functions are called
\* for every user id, with and without a date
NextService ==
    \/ \E goalType \in {"steps", "distance"} :
            ExpressCreateUser(Some(goalType), Some(GoalValue)) /\ UNCHANGED pending
    \/ \E userId \in UserIds, a \in ValidAmounts, date \in ServiceDates :
            ExpressCreateWalk(userId, Some(a[1]), Some(a[2]), Some(1), date)
            /\ UNCHANGED pending
    \/ \E id \in UserIds : NextDeleteUser(id) /\ UNCHANGED pending
    \/ \E userId \in UserIds, weekStartDate \in ReportAnchors :
            ServiceCalls(userId, weekStartDate) /\ UNCHANGED pending

SpecService == InitService /\ [][NextService]_vars

\* C28: called in the same state of the store, for an existing user
\* getUserStreakWithTransaction returns what getUserStreak returns and
\* getUserWeeklyReportWithTransaction what getUserWeeklyReport returns; for
\* a user id that does not exist each of the four fails with 'User not found'.
C28_TransactionVariantsAgree ==
    resp.op = "dbService" =>
        IF findUnique(resp.userId) # {}
        THEN /\ resp.streakTx = resp.streak
             /\ resp.reportTx = resp.report
        ELSE \A r \in {resp.streak, resp.streakTx, resp.report, resp.reportTx} :
                 r = Rejected("User not found")

\* ------------------------------------------- specification: the client's list

\* the user the device created when the app first ran
DeviceUser == [id |-> 1, goalType |-> "steps", goalValue |-> DefaultGoalValue]

\* the client after initializeData found that user and no walks of theirs
OnboardedClient ==
    [FreshClient EXCEPT
        !.userProfile = Some(apiUserToUserProfile(DeviceUser)),
        !.localStorage.currentUserId = Some(DeviceUser.id),
        !.localStorage.walkmateUserProfile = Some(apiUserToUserProfile(DeviceUser))]

\* what the timer hands to addActivity: a walk that began on BaseDay
Activities ==
    {[steps |-> n, distance |-> 1, duration |-> 1,
      timestamp |-> Midnight(BaseDay) + TicksPerDay - 1] : n \in 1..2}

InitClient ==
    /\ tz \in {z \in TimeZones : z.shift = 0}
    /\ now = Midnight(BaseDay + 1)
    /\ users = {DeviceUser}
    /\ walks = {}
    /\ resp = NoResponse
    /\ pending = NoRequests
    /\ client \in {FreshClient, OnboardedClient}

NextClient ==
    \/ \E c \in Slots, activity \in Activities : AddActivity(c, activity)
    \/ \E c \in Slots, answered \in BOOLEAN : SynchronizeUser(c, answered)
    \/ \E c \in Slots : CreateAndStoreNewUser(c)
    \/ \E c \in Slots : CreateUserFails(c)
    \/ \E c \in Slots : UserCreated(c)
    \/ \E c \in Slots : PostWalk(c)
    \/ \E c \in Slots : PostWalkFails(c)
    \/ \E c \in Slots : WalkPosted(c)
    \/ \E id \in UserIds : NextDeleteUser(id) /\ UNCHANGED pending

SpecClient == InitClient /\ [][NextClient]_vars

\* the list holds the activity
Holds(list, activity) == \E i \in 1..Len(list) : list[i] = activity

\* the list holds an activity with this id
HoldsId(list, id) == \E i \in 1..Len(list) : list[i].id = id

\* the list JSON.parse gives for the item 'walkActivities' (none: the empty list)
StoredActivities ==
    IF client.localStorage.walkActivities = Absent THEN <<>>
    ELSE ValueOf(client.localStorage.walkActivities)

\* the state and the stored copy when addActivity has finished after its POST
AfterAddActivity ==
    /\ client.localStorage.walkActivities = Some(client.activities)
    /\ resp.outcome = "posted" =>
          /\ Holds(client.activities, resp.serverActivity)
          /\ Holds(StoredActivities, resp.serverActivity)
          /\ ~HoldsId(client.activities, resp.tempId)
          /\ ~HoldsId(StoredActivities, resp.tempId)
    /\ resp.outcome = "failed" =>
          /\ HoldsId(client.activities, resp.tempId)
          /\ HoldsId(StoredActivities, resp.tempId)
    /\ \A i \in 1..Len(resp.before) :
          /\ Holds(client.activities, resp.before[i])
          /\ Holds(StoredActivities, resp.before[i])

\* C30: when addActivity finishes after its POST, the in-memory activities
\* list and the localStorage copy 'walkActivities' are equal; after a
\* successful POST both hold the server-returned activity and no entry with
\* the temporary id, after a failed POST both hold the temporary activity,
\* and in both cases both hold every activity the list held at the call.
C30_ListAndStorageAgree ==
    [][\A c \in Slots : (WalkPosted(c) \/ PostWalkFails(c)) => AfterAddActivity']_vars

====
